---- MODULE Spec2Model ----
(***************************************************************************)
(* IoT sensor reliability tracker: the statistical / queueing engine as    *)
(* implemented in C++ (reliability_engine.cpp), Fortran                    *)
(* (reliability_compute.f90), Haskell (ReliabilityModels.hs) and R         *)
(* (reliability_analysis.R).                                               *)
(*                                                                         *)
(* Numbers.  The programs compute in IEEE doubles.  A double is modelled   *)
(* as a record [n, d]: d > 0 is the exact rational n/d in lowest terms,    *)
(* d = 0 is a special value (n = 1: +Inf, n = -1: -Inf, n = 0: NaN).       *)
(* Rational operations are exact; exp, the one transcendental function     *)
(* the programs call, is evaluated to ExpScale decimal places.             *)
(***************************************************************************)
EXTENDS Integers, Sequences, FiniteSets, TLC

VARIABLES
    model,              \* survival models under evaluation: [k, lambda]
    prevCall,           \* the call made before lastCall on the same models
    lastCall,           \* the last survival-model call: [fn, t, ret]
    qm,                 \* queue inputs / the constructed C++ QueueingModel
    qret,               \* the last queue call: [fn, ...results]
    sensors,            \* the device list: FleetReliabilityManager::sensors,
                        \* the Haskell [Sensor], the dashboard's sensors state
    exponentialModels,  \* FleetReliabilityManager::exponentialModels
    erlangModels,       \* FleetReliabilityManager::erlangModels
    fret,               \* the last fleet call: [fn, ...results]
    writer,             \* a thread adding sensors and setting health
    reader,             \* a thread running a fleet query, statement by statement
    activeTab,          \* dashboard: the tab shown
    stats,              \* dashboard: [total, active, failed, warning]
    selectedSensor,     \* dashboard: the sensor clicked on the map, or null
    crewStatus,         \* dashboard: the crew list
    mounted             \* dashboard: the mount effect has run

vars == <<model, prevCall, lastCall, qm, qret,
          sensors, exponentialModels, erlangModels, fret, writer, reader,
          activeTab, stats, selectedSensor, crewStatus, mounted>>

survivalVars == <<model, prevCall, lastCall>>
queueVars == <<qm, qret>>
fleetVars == <<sensors, exponentialModels, erlangModels, fret>>
threadVars == <<writer, reader>>
dashboardVars == <<activeTab, stats, selectedSensor, crewStatus, mounted>>

---------------------------------------------------------------------------
(* Bounds of the model.                                                    *)

MaxK == 4
MaxT == 2
MaxServers == 3
MaxSensors == 2
MaxFleet == 50
MaxDevices == 30

---------------------------------------------------------------------------
(* Doubles.                                                                *)

Abs(x) == IF x < 0 THEN -x ELSE x

Sign(x) == IF x < 0 THEN -1 ELSE IF x > 0 THEN 1 ELSE 0

RECURSIVE GCD(_, _)
GCD(a, b) == IF b = 0 THEN a ELSE GCD(b, a % b)

\* n/d in lowest terms with a positive denominator (d # 0)
Rat(n, d) ==
    LET g == GCD(Abs(n), Abs(d))
    IN  IF d < 0 THEN [n |-> (-n) \div g, d |-> (-d) \div g]
                 ELSE [n |-> n \div g, d |-> d \div g]

Num(i) == [n |-> i, d |-> 1]
NaN == [n |-> 0, d |-> 0]
Inf(s) == [n |-> s, d |-> 0]

IsNaN(a) == a.d = 0 /\ a.n = 0
IsInf(a) == a.d = 0 /\ a.n # 0
IsFinite(a) == a.d > 0

FNeg(a) == [n |-> -a.n, d |-> a.d]

FAdd(a, b) ==
    IF IsNaN(a) \/ IsNaN(b) THEN NaN
    ELSE IF IsInf(a) /\ IsInf(b) THEN (IF a.n = b.n THEN a ELSE NaN)
    ELSE IF IsInf(a) THEN a
    ELSE IF IsInf(b) THEN b
    ELSE LET g == GCD(a.d, b.d)
         IN  Rat(a.n * (b.d \div g) + b.n * (a.d \div g), a.d * (b.d \div g))

FSub(a, b) == FAdd(a, FNeg(b))

FMul(a, b) ==
    IF IsNaN(a) \/ IsNaN(b) THEN NaN
    ELSE IF IsInf(a) \/ IsInf(b)
         THEN (IF a.n = 0 \/ b.n = 0 THEN NaN ELSE Inf(Sign(a.n) * Sign(b.n)))
    ELSE LET g1 == GCD(Abs(a.n), b.d)
             g2 == GCD(Abs(b.n), a.d)
         IN  Rat((a.n \div g1) * (b.n \div g2), (a.d \div g2) * (b.d \div g1))

FDiv(a, b) ==
    IF IsNaN(a) \/ IsNaN(b) THEN NaN
    ELSE IF IsInf(a) THEN (IF IsInf(b) THEN NaN
                           ELSE Inf(a.n * (IF b.n < 0 THEN -1 ELSE 1)))
    ELSE IF IsInf(b) THEN Num(0)
    ELSE IF b.n = 0 THEN (IF a.n = 0 THEN NaN ELSE Inf(Sign(a.n)))
    ELSE FMul(a, Rat(b.d, b.n))

\* a < b; every comparison with NaN is false
FLt(a, b) ==
    IF IsNaN(a) \/ IsNaN(b) THEN FALSE
    ELSE IF IsInf(a) THEN a.n < 0 /\ ~(IsInf(b) /\ b.n < 0)
    ELSE IF IsInf(b) THEN b.n > 0
    ELSE LET g == GCD(a.d, b.d)
         IN  a.n * (b.d \div g) < b.n * (a.d \div g)

FEq(a, b) == ~IsNaN(a) /\ ~IsNaN(b) /\ a = b
FLe(a, b) == FLt(a, b) \/ FEq(a, b)
FGt(a, b) == FLt(b, a)
FGe(a, b) == FLe(b, a)

\* i! on integers
RECURSIVE Fact(_)
Fact(i) == IF i <= 1 THEN 1 ELSE i * Fact(i - 1)

\* pow(x, n) for an integer n; pow(x, 0) = 1 for every x, pow(0, -1) = +Inf
RECURSIVE FPow(_, _)
FPow(x, n) ==
    IF n = 0 THEN Num(1)
    ELSE IF n < 0 THEN FDiv(Num(1), FPow(x, -n))
    ELSE FMul(x, FPow(x, n - 1))

\* |a - b| <= eps
Near(a, b, eps) == IsFinite(a) /\ IsFinite(b) /\
                   FLe(FSub(a, b), eps) /\ FLe(FSub(b, a), eps)

---------------------------------------------------------------------------
(* exp.  e^|y| is summed as a Taylor series in fixed point with SeriesScale *)
(* units; exp(y) for y <= 0 is returned rounded to a multiple of 1/ExpScale. *)

ExpScale == 10^4
SeriesScale == 10^5

RECURSIVE ExpSeries(_, _, _, _, _)
ExpSeries(p, q, i, term, acc) ==
    IF term = 0 THEN acc
    ELSE LET next == (term * p) \div (q * i)
         IN  ExpSeries(p, q, i + 1, next, acc + next)

Exp(y) ==
    IF IsNaN(y) THEN NaN
    ELSE IF IsInf(y) THEN (IF y.n > 0 THEN Inf(1) ELSE Num(0))
    ELSE LET e == ExpSeries(Abs(y.n), y.d, 1, SeriesScale, SeriesScale)
         IN  IF y.n >= 0
             THEN Rat(e, SeriesScale)
             ELSE Rat((ExpScale * SeriesScale + e \div 2) \div e, ExpScale)

---------------------------------------------------------------------------
(* C++: ExponentialModel and ErlangModel (reliability_engine.cpp).         *)

ExponentialModel_reliability(lambda, t) == Exp(FMul(FNeg(lambda), t))

ExponentialModel_hazardRate(lambda) == lambda

ExponentialModel_mtbf(lambda) == FDiv(Num(1), lambda)

ExponentialModel_pdf(lambda, t) == FMul(lambda, Exp(FMul(FNeg(lambda), t)))

\* for(i = 2; i <= n; ++i) result *= i
RECURSIVE FactLoop(_, _, _)
FactLoop(i, n, result) ==
    IF i <= n THEN FactLoop(i + 1, n, FMul(result, Num(i))) ELSE result

ErlangModel_factorial(n) == FactLoop(2, n, Num(1))

\* for(i = 0; i < k; ++i) { if(i > 0) term *= (lambda * t) / i; cdf += term; }
RECURSIVE ErlangModel_loop(_, _, _, _, _)
ErlangModel_loop(i, k, lt, term, cdf) ==
    IF i < k
    THEN LET term2 == IF i > 0 THEN FMul(term, FDiv(lt, Num(i))) ELSE term
         IN  ErlangModel_loop(i + 1, k, lt, term2, FAdd(cdf, term2))
    ELSE cdf

\* the value accumulated in the local the code calls cdf
ErlangModel_sum(k, lambda, t) ==
    ErlangModel_loop(0, k, FMul(lambda, t), Exp(FMul(FNeg(lambda), t)), Num(0))

ErlangModel_reliability(k, lambda, t) ==
    FSub(Num(1), ErlangModel_sum(k, lambda, t))

ErlangModel_pdf(k, lambda, t) ==
    FDiv(FMul(FMul(FPow(lambda, k), FPow(t, k - 1)), Exp(FMul(FNeg(lambda), t))),
         ErlangModel_factorial(k - 1))

\* the mean of one stage taken for the mean of all k
ErlangModel_mttf_oneStage(k, lambda) == FDiv(Num(1), lambda)

ErlangModel_mttf(k, lambda) == FDiv(Num(k), lambda)

---------------------------------------------------------------------------
(* Fortran: reliability_compute.f90.                                       *)

exponential_mtbf(lambda) == FDiv(Num(1), lambda)

erlang_mttf(k, lambda) == FDiv(Num(k), lambda)

exponential_reliability(lambda, t) == Exp(FMul(FNeg(lambda), t))

\* do i = 0, k - 1: if (i > 0) term = term * (lambda * t) / real(i); cdf_value += term
RECURSIVE erlang_reliability_loop(_, _, _, _, _)
erlang_reliability_loop(i, k, lt, term, cdf_value) ==
    IF i <= k - 1
    THEN LET term2 == IF i > 0 THEN FDiv(FMul(term, lt), Num(i)) ELSE term
         IN  erlang_reliability_loop(i + 1, k, lt, term2, FAdd(cdf_value, term2))
    ELSE cdf_value

erlang_reliability(k, lambda, t) ==
    FSub(Num(1), erlang_reliability_loop(0, k, FMul(lambda, t),
                                         Exp(FMul(FNeg(lambda), t)), Num(0)))

---------------------------------------------------------------------------
(* Haskell: ReliabilityModels.hs.                                          *)

exponentialReliability(lambda, t) == Exp(FMul(FNeg(lambda), t))

exponentialHazardRate(lambda) == lambda

exponentialMTBF(lambda) == FDiv(Num(1), lambda)

\* product [1..fromIntegral n]
RECURSIVE factorial(_)
factorial(n) == IF n < 1 THEN Num(1) ELSE FMul(factorial(n - 1), Num(n))

erlangPDF(k, lambda, t) ==
    IF FLt(t, Num(0)) THEN Num(0)
    ELSE FDiv(FMul(FMul(FPow(lambda, k), FPow(t, k - 1)),
                   Exp(FMul(FNeg(lambda), t))),
              factorial(k - 1))

erlangTerm(lambda, t, i) ==
    FDiv(FMul(Exp(FMul(FNeg(lambda), t)), FPow(FMul(lambda, t), i)), factorial(i))

\* sum [erlangTerm i | i <- [0..(k-1)]]
RECURSIVE erlangTermSum(_, _, _, _)
erlangTermSum(lambda, t, i, k) ==
    IF i > k - 1 THEN Num(0)
    ELSE FAdd(erlangTerm(lambda, t, i), erlangTermSum(lambda, t, i + 1, k))

\* the calls of factorial that evaluating the terms i..k-1 makes: one a term
RECURSIVE erlangTermSum_factorialCalls(_, _)
erlangTermSum_factorialCalls(i, k) ==
    IF i > k - 1 THEN 0 ELSE 1 + erlangTermSum_factorialCalls(i + 1, k)

erlangCDF(k, lambda, t) ==
    IF FLt(t, Num(0)) THEN Num(0)
    ELSE FSub(Num(1), erlangTermSum(lambda, t, 0, k))

erlangReliability(k, lambda, t) == FSub(Num(1), erlangCDF(k, lambda, t))

erlangMTTF(k, lambda) == FDiv(Num(k), lambda)

---------------------------------------------------------------------------
(* R: reliability_analysis.R.  pgamma is the gamma distribution function   *)
(* of the stats package; for an integer shape it is the Erlang F(t).       *)

RECURSIVE pgamma_terms(_, _, _)
pgamma_terms(x, i, shape) ==
    IF i > shape - 1 THEN Num(0)
    ELSE FAdd(FDiv(FMul(Exp(FNeg(x)), FPow(x, i)), Num(Fact(i))),
              pgamma_terms(x, i + 1, shape))

pgamma(q, shape, rate) ==
    IF FLe(q, Num(0)) THEN Num(0)
    ELSE FSub(Num(1), pgamma_terms(FMul(rate, q), 0, shape))

R_erlang_reliability(k, lambda, time_vector) ==
    FSub(Num(1), pgamma(time_vector, k, lambda))

---------------------------------------------------------------------------
(* Survival models: state and calls.  A model pair is built from one       *)
(* device's (kStages, failureRate), as FleetReliabilityManager::addSensor  *)
(* and main do; the Fortran and Haskell functions take the same values as  *)
(* arguments.                                                              *)

Lambdas == {Rat(1, 2000), Rat(1, 1000)}
Times == {Num(i * 1000) : i \in 0..MaxT}
Stages == 1..MaxK

\* The integers of the model checker are 32 bits wide: lambda^k is evaluated
\* only where its denominator d^k fits.
MaxInt == 2^30 + (2^30 - 1)

RECURSIVE PowFits(_, _, _)
PowFits(d, k, limit) ==
    IF k <= 0 THEN TRUE
    ELSE limit \div d >= 1 /\ PowFits(d, k - 1, limit \div d)

null == [id |-> "null"]

NoCall == [fn |-> "none"]

InitSurvival ==
    /\ model \in [k : Stages, lambda : Lambdas]
    /\ prevCall = NoCall
    /\ lastCall = NoCall
    /\ qm = [fn |-> "none"]
    /\ qret = NoCall
    /\ sensors = <<>>
    /\ exponentialModels = <<>>
    /\ erlangModels = <<>>
    /\ fret = NoCall
    /\ writer = [pc |-> "idle"]
    /\ reader = [pc |-> "idle"]
    /\ activeTab = "map"
    /\ stats = [total |-> 0, active |-> 0, failed |-> 0, warning |-> 0]
    /\ selectedSensor = null
    /\ crewStatus = <<>>
    /\ mounted = FALSE

Returned(fn, t, ret) ==
    /\ prevCall' = lastCall
    /\ lastCall' = [fn |-> fn, t |-> t, ret |-> ret]
    /\ UNCHANGED model

\* a call that sums the Erlang terms, with the calls of factorial it made
ReturnedSum(fn, t, ret, factorialCalls) ==
    /\ prevCall' = lastCall
    /\ lastCall' = [fn |-> fn, t |-> t, ret |-> ret,
                    factorialCalls |-> factorialCalls]
    /\ UNCHANGED model

CallExponentialModel_reliability ==
    \E t \in Times :
        Returned("ExponentialModel::reliability", t,
                 ExponentialModel_reliability(model.lambda, t))

CallExponentialModel_pdf ==
    \E t \in Times :
        Returned("ExponentialModel::pdf", t, ExponentialModel_pdf(model.lambda, t))

CallExponentialModel_mtbf ==
    Returned("ExponentialModel::mtbf", NaN, ExponentialModel_mtbf(model.lambda))

CallExponentialModel_hazardRate ==
    Returned("ExponentialModel::hazardRate", NaN,
             ExponentialModel_hazardRate(model.lambda))

CallErlangModel_reliability ==
    \E t \in Times :
        ReturnedSum("ErlangModel::reliability", t,
                    ErlangModel_reliability(model.k, model.lambda, t), 0)

CallErlangModel_pdf ==
    \E t \in Times :
        /\ PowFits(model.lambda.d, model.k, MaxInt)
        /\ Returned("ErlangModel::pdf", t, ErlangModel_pdf(model.k, model.lambda, t))

CallErlangModel_mttf ==
    Returned("ErlangModel::mttf", NaN, ErlangModel_mttf(model.k, model.lambda))

Call_exponential_reliability ==
    \E t \in Times :
        Returned("exponential_reliability", t,
                 exponential_reliability(model.lambda, t))

Call_erlang_reliability ==
    \E t \in Times :
        ReturnedSum("erlang_reliability", t,
                    erlang_reliability(model.k, model.lambda, t), 0)

Call_exponential_mtbf ==
    Returned("exponential_mtbf", NaN, exponential_mtbf(model.lambda))

Call_erlang_mttf ==
    Returned("erlang_mttf", NaN, erlang_mttf(model.k, model.lambda))

CallExponentialReliability ==
    \E t \in Times :
        Returned("exponentialReliability", t,
                 exponentialReliability(model.lambda, t))

CallExponentialHazardRate ==
    Returned("exponentialHazardRate", NaN, exponentialHazardRate(model.lambda))

CallExponentialMTBF ==
    Returned("exponentialMTBF", NaN, exponentialMTBF(model.lambda))

CallErlangPDF ==
    \E t \in Times :
        /\ PowFits(model.lambda.d, model.k, MaxInt)
        /\ Returned("erlangPDF", t, erlangPDF(model.k, model.lambda, t))

CallErlangReliability ==
    \E t \in Times :
        ReturnedSum("erlangReliability", t,
                    erlangReliability(model.k, model.lambda, t),
                    IF FLt(t, Num(0)) THEN 0
                    ELSE erlangTermSum_factorialCalls(0, model.k))

CallErlangMTTF ==
    Returned("erlangMTTF", NaN, erlangMTTF(model.k, model.lambda))

Call_R_erlang_reliability ==
    \E t \in Times :
        Returned("R erlang_reliability", t,
                 R_erlang_reliability(model.k, model.lambda, t))

NextSurvival ==
    /\ \/ CallExponentialModel_reliability
       \/ CallExponentialModel_pdf
       \/ CallExponentialModel_mtbf
       \/ CallExponentialModel_hazardRate
       \/ CallErlangModel_reliability
       \/ CallErlangModel_pdf
       \/ CallErlangModel_mttf
       \/ Call_exponential_reliability
       \/ Call_erlang_reliability
       \/ Call_exponential_mtbf
       \/ Call_erlang_mttf
       \/ CallExponentialReliability
       \/ CallExponentialHazardRate
       \/ CallExponentialMTBF
       \/ CallErlangPDF
       \/ CallErlangReliability
       \/ CallErlangMTTF
       \/ Call_R_erlang_reliability
    /\ UNCHANGED <<queueVars, fleetVars, threadVars, dashboardVars>>

SpecSurvival ==
    /\ InitSurvival
    /\ [][NextSurvival]_vars

---------------------------------------------------------------------------
(* M/M/c queue.  C++: QueueingModel.                                       *)

\* QueueingModel(arrival, service, servers): rho is computed once, here
QueueingModel(arrival, service, servers) ==
    [arrivalRate |-> arrival, serviceRate |-> service, numServers |-> servers,
     rho |-> FDiv(arrival, FMul(Num(servers), service))]

QueueingModel_factorial(n) == FactLoop(2, n, Num(1))

\* for(n = 0; n < numServers; ++n) sumTerm += pow(lambdaMu, n) / factorial(n)
RECURSIVE calculateP0_loop(_, _, _, _)
calculateP0_loop(n, numServers, lambdaMu, sumTerm) ==
    IF n < numServers
    THEN calculateP0_loop(n + 1, numServers, lambdaMu,
             FAdd(sumTerm, FDiv(FPow(lambdaMu, n), QueueingModel_factorial(n))))
    ELSE sumTerm

QueueingModel_calculateP0(q) ==
    LET lambdaMu == FDiv(q.arrivalRate, q.serviceRate)
        sumTerm == calculateP0_loop(0, q.numServers, lambdaMu, Num(0))
        lastTerm == FDiv(FPow(lambdaMu, q.numServers),
                         FMul(QueueingModel_factorial(q.numServers),
                              FSub(Num(1), q.rho)))
    IN  FDiv(Num(1), FAdd(sumTerm, lastTerm))

\* isStable with the comparison turned round
QueueingModel_isStable_flipped(q) == FGt(q.rho, Num(1))

QueueingModel_isStable(q) == FLt(q.rho, Num(1))

QueueingModel_getUtilization(q) == q.rho

QueueingModel_avgQueueLength(q) ==
    IF ~QueueingModel_isStable(q) THEN Num(-1)
    ELSE LET p0 == QueueingModel_calculateP0(q)
             lambdaMu == FDiv(q.arrivalRate, q.serviceRate)
         IN  FDiv(FMul(FMul(p0, FPow(lambdaMu, q.numServers)), q.rho),
                  FMul(QueueingModel_factorial(q.numServers),
                       FPow(FSub(Num(1), q.rho), 2)))

QueueingModel_avgWaitTime(q) ==
    IF ~QueueingModel_isStable(q) THEN Num(-1)
    ELSE LET lq == QueueingModel_avgQueueLength(q)
         IN  IF FGt(q.arrivalRate, Num(0)) THEN FDiv(lq, q.arrivalRate)
                                          ELSE Num(0)

(* Fortran: analyze_maintenance_queue and factorial.                       *)

f90_factorial(n) == FactLoop(2, n, Num(1))

\* do i = 0, n_servers - 1: sum_term = sum_term + (lambda_mu ** i) / factorial(i)
RECURSIVE analyze_maintenance_queue_loop(_, _, _, _)
analyze_maintenance_queue_loop(i, n_servers, lambda_mu, sum_term) ==
    IF i <= n_servers - 1
    THEN analyze_maintenance_queue_loop(i + 1, n_servers, lambda_mu,
             FAdd(sum_term, FDiv(FPow(lambda_mu, i), f90_factorial(i))))
    ELSE sum_term

\* the three intent(out) arguments
analyze_maintenance_queue(arr_rate, serv_rate, n_servers) ==
    LET rho == FDiv(arr_rate, FMul(Num(n_servers), serv_rate))
        lambda_mu == FDiv(arr_rate, serv_rate)
        sum_term == analyze_maintenance_queue_loop(0, n_servers, lambda_mu, Num(0))
        last_term == FDiv(FPow(lambda_mu, n_servers),
                          FMul(f90_factorial(n_servers), FSub(Num(1), rho)))
        p0 == FDiv(Num(1), FAdd(sum_term, last_term))
        avg_queue == FDiv(FMul(FMul(p0, FPow(lambda_mu, n_servers)), rho),
                          FMul(f90_factorial(n_servers),
                               FPow(FSub(Num(1), rho), 2)))
    IN  IF FGe(rho, Num(1))
        THEN [util |-> rho, avg_queue |-> Num(-1), avg_wait |-> Num(-1)]
        ELSE [util |-> rho, avg_queue |-> avg_queue,
              avg_wait |-> IF FGt(arr_rate, Num(0)) THEN FDiv(avg_queue, arr_rate)
                                                    ELSE Num(0)]

(* Haskell: calculateQueueMetrics, a Maybe QueueMetrics.                   *)

\* sum [lambdaMu ** fromIntegral n / factorial n | n <- [0..(numServers-1)]]
RECURSIVE p0DenominatorSum(_, _, _)
p0DenominatorSum(lambdaMu, n, numServers) ==
    IF n > numServers - 1 THEN Num(0)
    ELSE FAdd(FDiv(FPow(lambdaMu, n), factorial(n)),
              p0DenominatorSum(lambdaMu, n + 1, numServers))

calculateQueueMetrics(arrivalRate, serviceRate, numServers) ==
    LET rho == FDiv(arrivalRate, FMul(Num(numServers), serviceRate))
        utilization == FMul(rho, Num(100))
        lambdaMu == FDiv(arrivalRate, serviceRate)
        p0Denominator ==
            FAdd(p0DenominatorSum(lambdaMu, 0, numServers),
                 FDiv(FPow(lambdaMu, numServers),
                      FMul(factorial(numServers), FSub(Num(1), rho))))
        p0 == FDiv(Num(1), p0Denominator)
        avgQueueLength ==
            FDiv(FMul(FMul(p0, FPow(lambdaMu, numServers)), rho),
                 FMul(factorial(numServers), FPow(FSub(Num(1), rho), 2)))
        avgWaitTimeHours == FDiv(avgQueueLength, arrivalRate)
        avgWaitTimeMinutes == FMul(avgWaitTimeHours, Num(60))
    IN  IF FGe(rho, Num(1))
        THEN [maybe |-> "Nothing"]
        ELSE [maybe |-> "Just", utilization |-> utilization,
              avgQueueLength |-> avgQueueLength,
              avgWaitTimeMinutes |-> avgWaitTimeMinutes]

(* R: mmc_queue_metrics, a list (for num_servers >= 1, where 0:(num_servers - 1) *)
(* counts upwards).                                                        *)

\* sum(sapply(0:(num_servers - 1), function(n) (lambda_mu^n) / factorial(n)))
RECURSIVE mmc_sum_term(_, _, _)
mmc_sum_term(lambda_mu, n, num_servers) ==
    IF n > num_servers - 1 THEN Num(0)
    ELSE FAdd(FDiv(FPow(lambda_mu, n), Num(Fact(n))),
              mmc_sum_term(lambda_mu, n + 1, num_servers))

mmc_queue_metrics(arrival_rate, service_rate, num_servers) ==
    LET rho == FDiv(arrival_rate, FMul(Num(num_servers), service_rate))
        lambda_mu == FDiv(arrival_rate, service_rate)
        sum_term == mmc_sum_term(lambda_mu, 0, num_servers)
        last_term == FDiv(FPow(lambda_mu, num_servers),
                          FMul(Num(Fact(num_servers)), FSub(Num(1), rho)))
        p0 == FDiv(Num(1), FAdd(sum_term, last_term))
        lq == FDiv(FMul(FMul(p0, FPow(lambda_mu, num_servers)), rho),
                   FMul(Num(Fact(num_servers)), FPow(FSub(Num(1), rho), 2)))
        wq == FDiv(lq, arrival_rate)
        w == FAdd(wq, FDiv(Num(1), service_rate))
        l == FMul(arrival_rate, w)
    IN  IF FGe(rho, Num(1))
        THEN [stable |-> FALSE, message |-> "System unstable: rho >= 1"]
        ELSE [stable |-> TRUE, utilization |-> rho, p0 |-> p0,
              average_queue_length |-> lq,
              average_waiting_time_hours |-> wq,
              average_waiting_time_minutes |-> FMul(wq, Num(60)),
              average_time_in_system |-> w,
              average_number_in_system |-> l]

(* Queue: state and calls.  One set of inputs is drawn; the C++ model is   *)
(* constructed from it and the other languages' functions are called with  *)
(* the same three values.                                                  *)

ArrivalRates == {Num(0), Rat(1, 20), Rat(3, 20), Rat(1, 2)}
ServiceRates == {Rat(3, 20), Rat(1, 10)}
Servers == 1..MaxServers

InitQueue ==
    /\ \E a \in ArrivalRates, m \in ServiceRates, c \in Servers :
           qm = QueueingModel(a, m, c)
    /\ qret = NoCall
    /\ model = [fn |-> "none"]
    /\ prevCall = NoCall
    /\ lastCall = NoCall
    /\ sensors = <<>>
    /\ exponentialModels = <<>>
    /\ erlangModels = <<>>
    /\ fret = NoCall
    /\ writer = [pc |-> "idle"]
    /\ reader = [pc |-> "idle"]
    /\ activeTab = "map"
    /\ stats = [total |-> 0, active |-> 0, failed |-> 0, warning |-> 0]
    /\ selectedSensor = null
    /\ crewStatus = <<>>
    /\ mounted = FALSE

QReturned(fn, val) ==
    /\ qret' = [fn |-> fn, val |-> val]
    /\ UNCHANGED qm

CallQueueingModel_isStable ==
    QReturned("QueueingModel::isStable", QueueingModel_isStable(qm))

CallQueueingModel_getUtilization ==
    QReturned("QueueingModel::getUtilization", QueueingModel_getUtilization(qm))

CallQueueingModel_avgQueueLength ==
    QReturned("QueueingModel::avgQueueLength", QueueingModel_avgQueueLength(qm))

CallQueueingModel_avgWaitTime ==
    QReturned("QueueingModel::avgWaitTime", QueueingModel_avgWaitTime(qm))

Call_analyze_maintenance_queue ==
    QReturned("analyze_maintenance_queue",
              analyze_maintenance_queue(qm.arrivalRate, qm.serviceRate,
                                        qm.numServers))

CallCalculateQueueMetrics ==
    QReturned("calculateQueueMetrics",
              calculateQueueMetrics(qm.arrivalRate, qm.serviceRate, qm.numServers))

Call_mmc_queue_metrics ==
    QReturned("mmc_queue_metrics",
              mmc_queue_metrics(qm.arrivalRate, qm.serviceRate, qm.numServers))

NextQueue ==
    /\ \/ CallQueueingModel_isStable
       \/ CallQueueingModel_getUtilization
       \/ CallQueueingModel_avgQueueLength
       \/ CallQueueingModel_avgWaitTime
       \/ Call_analyze_maintenance_queue
       \/ CallCalculateQueueMetrics
       \/ Call_mmc_queue_metrics
    /\ UNCHANGED <<survivalVars, fleetVars, threadVars, dashboardVars>>

SpecQueue ==
    /\ InitQueue
    /\ [][NextQueue]_vars

(* The queue with any server count: QueueingModel's constructor takes an   *)
(* int and stores it, the Fortran and Haskell functions take an integer.   *)

AnyServers == {-1, 0, 1}

InitQueueServers ==
    /\ \E a \in ArrivalRates, m \in ServiceRates, c \in AnyServers :
           qm = QueueingModel(a, m, c)
    /\ qret = NoCall
    /\ model = [fn |-> "none"]
    /\ prevCall = NoCall
    /\ lastCall = NoCall
    /\ sensors = <<>>
    /\ exponentialModels = <<>>
    /\ erlangModels = <<>>
    /\ fret = NoCall
    /\ writer = [pc |-> "idle"]
    /\ reader = [pc |-> "idle"]
    /\ activeTab = "map"
    /\ stats = [total |-> 0, active |-> 0, failed |-> 0, warning |-> 0]
    /\ selectedSensor = null
    /\ crewStatus = <<>>
    /\ mounted = FALSE

NextQueueServers ==
    /\ \/ CallQueueingModel_isStable
       \/ CallQueueingModel_getUtilization
       \/ CallQueueingModel_avgQueueLength
       \/ CallQueueingModel_avgWaitTime
       \/ Call_analyze_maintenance_queue
       \/ CallCalculateQueueMetrics
    /\ UNCHANGED <<survivalVars, fleetVars, threadVars, dashboardVars>>

SpecQueueServers ==
    /\ InitQueueServers
    /\ [][NextQueueServers]_vars

---------------------------------------------------------------------------
(* Fleet.  C++: FleetReliabilityManager.                                   *)

\* static_cast<int>(x), Fortran int(x): truncation towards zero
Trunc(x) == IF x.n >= 0 THEN x.n \div x.d ELSE -((-x.n) \div x.d)

\* Haskell round: to the nearest integer, halves to the even one
RoundHalfEven(x) ==
    LET fl == x.n \div x.d
        twice == FSub(FMul(x, Num(2)), Num(2 * fl))
    IN  IF FLt(twice, Num(1)) THEN fl
        ELSE IF FGt(twice, Num(1)) THEN fl + 1
        ELSE IF fl % 2 = 0 THEN fl ELSE fl + 1

\* for(const auto& model : exponentialModels) sum += model->mtbf()
RECURSIVE calculateFleetMTBF_loop(_, _, _)
calculateFleetMTBF_loop(models, i, sum) ==
    IF i > Len(models) THEN sum
    ELSE calculateFleetMTBF_loop(models, i + 1,
             FAdd(sum, ExponentialModel_mtbf(models[i].lambda)))

FleetReliabilityManager_calculateFleetMTBF(models) ==
    FDiv(calculateFleetMTBF_loop(models, 1, Num(0)), Num(Len(models)))

RECURSIVE calculateFleetMTTF_loop(_, _, _)
calculateFleetMTTF_loop(models, i, sum) ==
    IF i > Len(models) THEN sum
    ELSE calculateFleetMTTF_loop(models, i + 1,
             FAdd(sum, ErlangModel_mttf(models[i].k, models[i].lambda)))

FleetReliabilityManager_calculateFleetMTTF(models) ==
    FDiv(calculateFleetMTTF_loop(models, 1, Num(0)), Num(Len(models)))

RECURSIVE calculateFleetReliability_loop(_, _, _, _)
calculateFleetReliability_loop(models, timeHorizon, i, sum) ==
    IF i > Len(models) THEN sum
    ELSE calculateFleetReliability_loop(models, timeHorizon, i + 1,
             FAdd(sum, ErlangModel_reliability(models[i].k, models[i].lambda,
                                               timeHorizon)))

FleetReliabilityManager_calculateFleetReliability(models, timeHorizon) ==
    FDiv(calculateFleetReliability_loop(models, timeHorizon, 1, Num(0)),
         Num(Len(models)))

\* for(const auto& sensor : sensors) { if > 70 active++ else if > 30 warning++ else failed++ }
RECURSIVE getSensorStats_loop(_, _, _)
getSensorStats_loop(ss, i, st) ==
    IF i > Len(ss) THEN st
    ELSE LET health == ss[i].health
         IN  getSensorStats_loop(ss, i + 1,
                 IF health > 70 THEN [st EXCEPT !.active = @ + 1]
                 ELSE IF health > 30 THEN [st EXCEPT !.warning = @ + 1]
                 ELSE [st EXCEPT !.failed = @ + 1])

\* getSensorStats with both boundaries put in the upper tier
FleetReliabilityManager_getSensorStats_inclusive(ss) ==
    [total |-> Len(ss),
     active |-> Cardinality({i \in DOMAIN ss : ss[i].health >= 70}),
     warning |-> Cardinality({i \in DOMAIN ss : ss[i].health >= 30 /\ ss[i].health < 70}),
     failed |-> Cardinality({i \in DOMAIN ss : ss[i].health < 30})]

FleetReliabilityManager_getSensorStats(ss) ==
    getSensorStats_loop(ss, 1,
        [total |-> Len(ss), active |-> 0, warning |-> 0, failed |-> 0])

\* for(const auto& sensor : sensors) if(sensor->getHealth() < 30.0) currentFailures++
RECURSIVE analyzeCascadeRisk_loop(_, _, _)
analyzeCascadeRisk_loop(ss, i, currentFailures) ==
    IF i > Len(ss) THEN currentFailures
    ELSE analyzeCascadeRisk_loop(ss, i + 1,
             IF ss[i].health < 30 THEN currentFailures + 1 ELSE currentFailures)

\* analyzeCascadeRisk with inclusive thresholds
FleetReliabilityManager_analyzeCascadeRisk_inclusive(ss) ==
    LET currentFailures == analyzeCascadeRisk_loop(ss, 1, 0)
        riskFactor == FDiv(Num(currentFailures), Num(Len(ss)))
        dependencyMultiplier ==
            IF FGe(riskFactor, Rat(2, 10)) THEN Rat(15, 10)
            ELSE IF FGe(riskFactor, Rat(1, 10)) THEN Rat(12, 10)
            ELSE Num(1)
    IN  [currentFailures |-> currentFailures,
         riskFactor |-> riskFactor,
         expectedAdditional |->
             Trunc(FMul(FMul(Num(currentFailures), dependencyMultiplier),
                        Rat(3, 10))),
         riskLevel |-> IF FGe(riskFactor, Rat(15, 100)) THEN "HIGH"
                       ELSE IF FGe(riskFactor, Rat(8, 100)) THEN "MEDIUM"
                       ELSE "LOW",
         dependencyMultiplier |-> dependencyMultiplier]

\* analyzeCascadeRisk dividing the devices still healthy by the total
FleetReliabilityManager_analyzeCascadeRisk_healthy(ss) ==
    LET currentFailures == analyzeCascadeRisk_loop(ss, 1, 0)
        riskFactor == FDiv(Num(Len(ss) - currentFailures), Num(Len(ss)))
        dependencyMultiplier ==
            IF FGt(riskFactor, Rat(2, 10)) THEN Rat(15, 10)
            ELSE IF FGt(riskFactor, Rat(1, 10)) THEN Rat(12, 10)
            ELSE Num(1)
    IN  [currentFailures |-> currentFailures,
         riskFactor |-> riskFactor,
         expectedAdditional |->
             Trunc(FMul(FMul(Num(currentFailures), dependencyMultiplier),
                        Rat(3, 10))),
         riskLevel |-> IF FGt(riskFactor, Rat(15, 100)) THEN "HIGH"
                       ELSE IF FGt(riskFactor, Rat(8, 100)) THEN "MEDIUM"
                       ELSE "LOW",
         dependencyMultiplier |-> dependencyMultiplier]

FleetReliabilityManager_analyzeCascadeRisk(ss) ==
    LET currentFailures == analyzeCascadeRisk_loop(ss, 1, 0)
        riskFactor == FDiv(Num(currentFailures), Num(Len(ss)))
        dependencyMultiplier ==
            IF FGt(riskFactor, Rat(2, 10)) THEN Rat(15, 10)
            ELSE IF FGt(riskFactor, Rat(1, 10)) THEN Rat(12, 10)
            ELSE Num(1)
    IN  [currentFailures |-> currentFailures,
         riskFactor |-> riskFactor,
         expectedAdditional |->
             Trunc(FMul(FMul(Num(currentFailures), dependencyMultiplier),
                        Rat(3, 10))),
         riskLevel |-> IF FGt(riskFactor, Rat(15, 100)) THEN "HIGH"
                       ELSE IF FGt(riskFactor, Rat(8, 100)) THEN "MEDIUM"
                       ELSE "LOW",
         dependencyMultiplier |-> dependencyMultiplier]

(* Fortran: classify_sensors_by_health and analyze_cascade_risk.           *)

RECURSIVE classify_sensors_by_health_loop(_, _, _, _)
classify_sensors_by_health_loop(n, health, i, counts) ==
    IF i > n THEN counts
    ELSE classify_sensors_by_health_loop(n, health, i + 1,
             IF health[i] > 70 THEN [counts EXCEPT !.active = @ + 1]
             ELSE IF health[i] > 30 THEN [counts EXCEPT !.warning = @ + 1]
             ELSE [counts EXCEPT !.failed = @ + 1])

classify_sensors_by_health(n, health) ==
    classify_sensors_by_health_loop(n, health, 1,
        [active |-> 0, warning |-> 0, failed |-> 0])

\* the values the subroutine prints
analyze_cascade_risk(n_failed, n_total) ==
    LET risk_factor == FDiv(Num(n_failed), Num(n_total))
        dep_mult == IF FGt(risk_factor, Rat(2, 10)) THEN Rat(15, 10)
                    ELSE IF FGt(risk_factor, Rat(1, 10)) THEN Rat(12, 10)
                    ELSE Num(1)
    IN  [currentFailures |-> n_failed,
         riskFactor |-> risk_factor,
         expectedAdditional |->
             Trunc(FMul(FMul(Num(n_failed), dep_mult), Rat(3, 10))),
         riskLevel |-> IF FGt(risk_factor, Rat(15, 100)) THEN "HIGH"
                       ELSE IF FGt(risk_factor, Rat(8, 100)) THEN "MEDIUM"
                       ELSE "LOW",
         dependencyMultiplier |-> dep_mult]

(* Haskell: calculateFleetMetrics, average, classifySensor, analyzeCascadeRisk. *)

\* a sum that weights each element by its position
RECURSIVE SumSeq_weighted(_, _)
SumSeq_weighted(xs, i) ==
    IF i > Len(xs) THEN Num(0)
    ELSE FAdd(FMul(Num(i), xs[i]), SumSeq_weighted(xs, i + 1))

RECURSIVE SumSeq(_, _)
SumSeq(xs, i) == IF i > Len(xs) THEN Num(0) ELSE FAdd(xs[i], SumSeq(xs, i + 1))

average(xs) == FDiv(SumSeq(xs, 1), Num(Len(xs)))

calculateFleetMetrics(ss, timeHorizon) ==
    LET mtbfValues == [i \in DOMAIN ss |-> exponentialMTBF(ss[i].failureRate)]
        mttfValues == [i \in DOMAIN ss |->
                          erlangMTTF(ss[i].kStages, ss[i].failureRate)]
        reliabilities == [i \in DOMAIN ss |->
                             erlangReliability(ss[i].kStages, ss[i].failureRate,
                                               timeHorizon)]
    IN  [totalSensors |-> Len(ss),
         activeSensors |-> Cardinality({i \in DOMAIN ss : ss[i].health > 70}),
         warningSensors |->
             Cardinality({i \in DOMAIN ss :
                              ss[i].health > 30 /\ ss[i].health <= 70}),
         failedSensors |-> Cardinality({i \in DOMAIN ss : ss[i].health <= 30}),
         fleetMTBF |-> average(mtbfValues),
         fleetMTTF |-> average(mttfValues),
         fleetReliability |-> average(reliabilities)]

classifySensor(sensor) ==
    IF sensor.health > 70 THEN "Active"
    ELSE IF sensor.health > 30 THEN "Warning"
    ELSE "Failed"

\* analyzeCascadeRisk counting only the devices that wait in the queue
analyzeCascadeRisk_queued(ss) ==
    LET currentFailures == Cardinality({i \in DOMAIN ss :
                             ss[i].health < 30 /\ ss[i].queuePosition > 0})
        totalSensors == Len(ss)
        cascadeRiskFactor == FDiv(Num(currentFailures), Num(totalSensors))
        dependencyMultiplier ==
            IF FGt(cascadeRiskFactor, Rat(2, 10)) THEN Rat(15, 10)
            ELSE IF FGt(cascadeRiskFactor, Rat(1, 10)) THEN Rat(12, 10)
            ELSE Num(1)
    IN  [currentFailures |-> currentFailures,
         riskFactor |-> cascadeRiskFactor,
         expectedAdditional |->
             RoundHalfEven(FMul(FMul(Num(currentFailures), dependencyMultiplier),
                                Rat(3, 10))),
         riskLevel |-> IF FGt(cascadeRiskFactor, Rat(15, 100)) THEN "HIGH"
                       ELSE IF FGt(cascadeRiskFactor, Rat(8, 100)) THEN "MEDIUM"
                       ELSE "LOW",
         dependencyMultiplier |-> dependencyMultiplier]

analyzeCascadeRisk(ss) ==
    LET currentFailures == Cardinality({i \in DOMAIN ss : ss[i].health < 30})
        totalSensors == Len(ss)
        cascadeRiskFactor == FDiv(Num(currentFailures), Num(totalSensors))
        dependencyMultiplier ==
            IF FGt(cascadeRiskFactor, Rat(2, 10)) THEN Rat(15, 10)
            ELSE IF FGt(cascadeRiskFactor, Rat(1, 10)) THEN Rat(12, 10)
            ELSE Num(1)
    IN  [currentFailures |-> currentFailures,
         riskFactor |-> cascadeRiskFactor,
         expectedAdditional |->
             RoundHalfEven(FMul(FMul(Num(currentFailures), dependencyMultiplier),
                                Rat(3, 10))),
         riskLevel |-> IF FGt(cascadeRiskFactor, Rat(15, 100)) THEN "HIGH"
                       ELSE IF FGt(cascadeRiskFactor, Rat(8, 100)) THEN "MEDIUM"
                       ELSE "LOW",
         dependencyMultiplier |-> dependencyMultiplier]

(* R: analyze_cascade_risk.  if (NA > 0.2) stops with an error, which is   *)
(* what an empty data frame leads to.                                      *)

R_analyze_cascade_risk(sensor_data) ==
    LET n_failed == Cardinality({i \in DOMAIN sensor_data :
                                     sensor_data[i].health < 30})
        n_total == Len(sensor_data)
        cascade_risk == FDiv(Num(n_failed), Num(n_total))
        dependency_multiplier ==
            IF FGt(cascade_risk, Rat(2, 10)) THEN Rat(15, 10)
            ELSE IF FGt(cascade_risk, Rat(1, 10)) THEN Rat(12, 10)
            ELSE Num(1)
    IN  IF IsNaN(cascade_risk)
        THEN [error |-> "missing value where TRUE/FALSE needed"]
        ELSE [currentFailures |-> n_failed,
              riskFactor |-> cascade_risk,
              expectedAdditional |->
                  RoundHalfEven(FMul(FMul(Num(n_failed), dependency_multiplier),
                                     Rat(3, 10))),
              riskLevel |-> IF FGt(cascade_risk, Rat(15, 100)) THEN "HIGH"
                            ELSE IF FGt(cascade_risk, Rat(8, 100)) THEN "MEDIUM"
                            ELSE "LOW",
              dependencyMultiplier |-> dependency_multiplier]

(* Fleet: state and calls.                                                 *)

HealthValues == {29, 30, 31, 70, 71}
DeviceModels == {[failureRate |-> Rat(1, 2000), kStages |-> 3],
                 [failureRate |-> Rat(1, 1000), kStages |-> 2]}
SensorTypes == <<"TRAFFIC", "AIR_QUALITY", "WATER_FLOW">>

\* the i-th sensor initializeSensorNetwork builds (i from 0), with the values
\* its random draws gave
Sensor(i, health, dm, qPos) ==
    [id |-> i + 1, type |-> SensorTypes[(i % 3) + 1], health |-> health,
     uptimeHours |-> 1000 + i * 100, failureRate |-> dm.failureRate,
     kStages |-> dm.kStages, queuePosition |-> qPos]

InitFleet ==
    /\ sensors = <<>>
    /\ exponentialModels = <<>>
    /\ erlangModels = <<>>
    /\ fret = NoCall
    /\ writer = [pc |-> "idle"]
    /\ reader = [pc |-> "idle"]
    /\ activeTab = "map"
    /\ stats = [total |-> 0, active |-> 0, failed |-> 0, warning |-> 0]
    /\ selectedSensor = null
    /\ crewStatus = <<>>
    /\ mounted = FALSE
    /\ model = [fn |-> "none"]
    /\ prevCall = NoCall
    /\ lastCall = NoCall
    /\ qm = [fn |-> "none"]
    /\ qret = NoCall

\* a query that drops the device list as it returns
FReturned_consuming(fn, val) ==
    /\ fret' = [fn |-> fn, val |-> val]
    /\ sensors' = <<>>
    /\ UNCHANGED <<exponentialModels, erlangModels>>

FReturned(fn, val) ==
    /\ fret' = [fn |-> fn, val |-> val]
    /\ UNCHANGED <<sensors, exponentialModels, erlangModels>>

\* addSensor that builds the Erlang model with the stage count left out
addSensor_oneStage(sensor) ==
    /\ sensors' = Append(sensors, sensor)
    /\ exponentialModels' = Append(exponentialModels, [lambda |-> sensor.failureRate])
    /\ erlangModels' = Append(erlangModels,
                              [k |-> 1, lambda |-> sensor.failureRate])
    /\ fret' = [fn |-> "addSensor"]

addSensor(sensor) ==
    /\ sensors' = Append(sensors, sensor)
    /\ exponentialModels' = Append(exponentialModels, [lambda |-> sensor.failureRate])
    /\ erlangModels' = Append(erlangModels,
                              [k |-> sensor.kStages, lambda |-> sensor.failureRate])
    /\ fret' = [fn |-> "addSensor"]

CallAddSensor ==
    /\ Len(sensors) < MaxSensors
    /\ \E h \in HealthValues, dm \in DeviceModels :
           addSensor(Sensor(Len(sensors), h, dm, 0))

\* sensor->setHealth(h) through a pointer obtained from getSensors()
CallSetHealth ==
    \E i \in DOMAIN sensors, h \in HealthValues :
        /\ sensors[i].health # h
        /\ sensors' = [sensors EXCEPT ![i].health = h]
        /\ fret' = [fn |-> "setHealth"]
        /\ UNCHANGED <<exponentialModels, erlangModels>>

CallGetSensorStats ==
    FReturned("FleetReliabilityManager::getSensorStats",
              FleetReliabilityManager_getSensorStats(sensors))

CallAnalyzeCascadeRisk ==
    FReturned("FleetReliabilityManager::analyzeCascadeRisk",
              FleetReliabilityManager_analyzeCascadeRisk(sensors))

CallCalculateFleetMTBF ==
    FReturned("FleetReliabilityManager::calculateFleetMTBF",
              FleetReliabilityManager_calculateFleetMTBF(exponentialModels))

CallCalculateFleetMTTF ==
    FReturned("FleetReliabilityManager::calculateFleetMTTF",
              FleetReliabilityManager_calculateFleetMTTF(erlangModels))

CallCalculateFleetReliability ==
    \E T \in Times :
        FReturned("FleetReliabilityManager::calculateFleetReliability",
                  [timeHorizon |-> T,
                   ret |-> FleetReliabilityManager_calculateFleetReliability(
                               erlangModels, T)])

Call_classify_sensors_by_health ==
    FReturned("classify_sensors_by_health",
              classify_sensors_by_health(Len(sensors),
                  [i \in DOMAIN sensors |-> sensors[i].health]))

\* main: call analyze_cascade_risk(failed_count, n_sensors), failed_count from
\* classify_sensors_by_health
Call_analyze_cascade_risk ==
    FReturned("analyze_cascade_risk",
              analyze_cascade_risk(
                  classify_sensors_by_health(Len(sensors),
                      [i \in DOMAIN sensors |-> sensors[i].health]).failed,
                  Len(sensors)))

CallCalculateFleetMetrics ==
    \E T \in Times :
        FReturned("calculateFleetMetrics",
                  [timeHorizon |-> T] @@ calculateFleetMetrics(sensors, T))

CallHsAnalyzeCascadeRisk ==
    FReturned("analyzeCascadeRisk", analyzeCascadeRisk(sensors))

CallClassifySensor ==
    \E i \in DOMAIN sensors :
        FReturned("classifySensor",
                  [i |-> i, tier |-> classifySensor(sensors[i])])

Call_R_analyze_cascade_risk ==
    FReturned("R analyze_cascade_risk", R_analyze_cascade_risk(sensors))

NextFleet ==
    /\ \/ CallAddSensor
       \/ CallSetHealth
       \/ CallGetSensorStats
       \/ CallAnalyzeCascadeRisk
       \/ CallCalculateFleetMTBF
       \/ CallCalculateFleetMTTF
       \/ CallCalculateFleetReliability
       \/ Call_classify_sensors_by_health
       \/ Call_analyze_cascade_risk
       \/ CallCalculateFleetMetrics
       \/ CallHsAnalyzeCascadeRisk
       \/ CallClassifySensor
       \/ Call_R_analyze_cascade_risk
    /\ UNCHANGED <<survivalVars, queueVars, threadVars, dashboardVars>>

SpecFleet ==
    /\ InitFleet
    /\ [][NextFleet]_vars

(* Cascade analysis on fleets of up to MaxFleet devices: a manager holding *)
(* `total` sensors of which the first `failed` have health 20 and the rest *)
(* health 80, as a run of initializeSensorNetwork can leave it.            *)

FleetOf(total, failed) ==
    [i \in 1..total |->
        Sensor(i - 1, IF i <= failed THEN 20 ELSE 80,
               [failureRate |-> Rat(1, 2000), kStages |-> 3], 0)]

InitCascade ==
    /\ \E total \in 1..MaxFleet : \E failed \in 0..total :
           sensors = FleetOf(total, failed)
    /\ exponentialModels = [i \in DOMAIN sensors |->
                               [lambda |-> sensors[i].failureRate]]
    /\ erlangModels = [i \in DOMAIN sensors |->
                          [k |-> sensors[i].kStages,
                           lambda |-> sensors[i].failureRate]]
    /\ fret = NoCall
    /\ writer = [pc |-> "idle"]
    /\ reader = [pc |-> "idle"]
    /\ activeTab = "map"
    /\ stats = [total |-> 0, active |-> 0, failed |-> 0, warning |-> 0]
    /\ selectedSensor = null
    /\ crewStatus = <<>>
    /\ mounted = FALSE
    /\ model = [fn |-> "none"]
    /\ prevCall = NoCall
    /\ lastCall = NoCall
    /\ qm = [fn |-> "none"]
    /\ qret = NoCall

NextCascade ==
    /\ \/ CallGetSensorStats
       \/ CallAnalyzeCascadeRisk
       \/ Call_classify_sensors_by_health
       \/ Call_analyze_cascade_risk
       \/ CallHsAnalyzeCascadeRisk
       \/ Call_R_analyze_cascade_risk
    /\ UNCHANGED <<survivalVars, queueVars, threadVars, dashboardVars>>

SpecCascade ==
    /\ InitCascade
    /\ [][NextCascade]_vars

---------------------------------------------------------------------------
(* Construction.  The constructors ExponentialModel(rate) and              *)
(* ErlangModel(stages, rate) store their arguments; addSensor builds both  *)
(* models from the record it is handed.  Here the arguments range over     *)
(* values outside lambda > 0, k >= 1 as well.  A run works either on a     *)
(* stand-alone pair of models or on the manager.                           *)

AnyRates == {Rat(-1, 1000), Num(0), Rat(1, 1000)}
AnyStages == 0..2

InitConstruct ==
    /\ model = [fn |-> "none"]
    /\ prevCall = NoCall
    /\ lastCall = NoCall
    /\ qm = [fn |-> "none"]
    /\ qret = NoCall
    /\ sensors = <<>>
    /\ exponentialModels = <<>>
    /\ erlangModels = <<>>
    /\ fret = NoCall
    /\ writer = [pc |-> "idle"]
    /\ reader = [pc |-> "idle"]
    /\ activeTab = "map"
    /\ stats = [total |-> 0, active |-> 0, failed |-> 0, warning |-> 0]
    /\ selectedSensor = null
    /\ crewStatus = <<>>
    /\ mounted = FALSE

\* ExponentialModel exp(rate); ErlangModel erl(stages, rate);
ConstructModels ==
    /\ sensors = <<>>
    /\ \E stages \in AnyStages, rate \in AnyRates :
           model' = [k |-> stages, lambda |-> rate]
    /\ prevCall' = NoCall
    /\ lastCall' = NoCall
    /\ UNCHANGED <<queueVars, fleetVars, threadVars, dashboardVars>>

CallAddAnySensor ==
    /\ model = [fn |-> "none"]
    /\ Len(sensors) < 1
    /\ \E stages \in AnyStages, rate \in AnyRates :
           addSensor(Sensor(Len(sensors), 80,
                            [failureRate |-> rate, kStages |-> stages], 0))
    /\ UNCHANGED <<survivalVars, queueVars, threadVars, dashboardVars>>

NextConstruct ==
    \/ ConstructModels
    \/ CallAddAnySensor
    \/ /\ model # [fn |-> "none"]
       /\ \/ CallExponentialModel_reliability
          \/ CallExponentialModel_pdf
          \/ CallExponentialModel_mtbf
          \/ CallExponentialModel_hazardRate
          \/ CallErlangModel_reliability
          \/ CallErlangModel_pdf
          \/ CallErlangModel_mttf
       /\ UNCHANGED <<queueVars, fleetVars, threadVars, dashboardVars>>
    \/ /\ sensors # <<>>
       /\ \/ CallCalculateFleetMTBF
          \/ CallCalculateFleetMTTF
          \/ CallCalculateFleetReliability
       /\ UNCHANGED <<survivalVars, queueVars, threadVars, dashboardVars>>

SpecConstruct ==
    /\ InitConstruct
    /\ [][NextConstruct]_vars

---------------------------------------------------------------------------
(* Two threads on one FleetReliabilityManager, no lock.  The writer runs   *)
(* addSensor (three push_backs) and Sensor::setHealth (one store); the     *)
(* reader runs calculateFleetMTBF, calculateFleetMTTF or getSensorStats,   *)
(* one statement or loop iteration at a time.  The interleavings kept are  *)
(* those in which a push_back does not move the vector under the reader;   *)
(* where it does, the reader's iterators dangle and any value can be read. *)
(*                                                                         *)
(* writer.logical is the device list after every operation the writer has  *)
(* begun, writer.before the list before the operation still in flight.     *)
(* reader.serial collects the device lists a query could have met had the  *)
(* operations run one after another.                                       *)

\* the health a sensor is added with, and the health the writer then reports
AddedHealth == 80
ReportedHealth == 20

ModelsOf(ss) == [i \in DOMAIN ss |-> [k |-> ss[i].kStages, lambda |-> ss[i].failureRate]]

InitConcurrent ==
    /\ sensors = <<>>
    /\ exponentialModels = <<>>
    /\ erlangModels = <<>>
    /\ fret = NoCall
    /\ writer = [pc |-> "idle", logical |-> <<>>, before |-> <<>>]
    /\ reader = [pc |-> "idle"]
    /\ activeTab = "map"
    /\ stats = [total |-> 0, active |-> 0, failed |-> 0, warning |-> 0]
    /\ selectedSensor = null
    /\ crewStatus = <<>>
    /\ mounted = FALSE
    /\ model = [fn |-> "none"]
    /\ prevCall = NoCall
    /\ lastCall = NoCall
    /\ qm = [fn |-> "none"]
    /\ qret = NoCall

\* a list the writer has just moved to is one more list the running query
\* could have met
Meets(ss) ==
    IF reader.pc = "idle" THEN reader
    ELSE [reader EXCEPT !.serial = @ \cup {ss}]

\* addSensor: sensors.push_back(sensor)
Writer_addSensor_sensors ==
    /\ writer.pc = "idle"
    /\ Len(sensors) < MaxSensors
    /\ \E dm \in DeviceModels :
           LET sensor == Sensor(Len(sensors), AddedHealth, dm, 0)
           IN  /\ sensors' = Append(sensors, sensor)
               /\ writer' = [pc |-> "exponentialModels", sensor |-> sensor,
                             logical |-> Append(writer.logical, sensor),
                             before |-> writer.logical]
               /\ reader' = Meets(Append(writer.logical, sensor))
    /\ UNCHANGED <<exponentialModels, erlangModels, fret>>

\* addSensor: exponentialModels.push_back(...)
Writer_addSensor_exponentialModels ==
    /\ writer.pc = "exponentialModels"
    /\ exponentialModels' =
           Append(exponentialModels, [lambda |-> writer.sensor.failureRate])
    /\ writer' = [writer EXCEPT !.pc = "erlangModels"]
    /\ UNCHANGED <<sensors, erlangModels, fret, reader>>

\* addSensor: erlangModels.push_back(...), and return
Writer_addSensor_erlangModels ==
    /\ writer.pc = "erlangModels"
    /\ erlangModels' =
           Append(erlangModels, [k |-> writer.sensor.kStages,
                                 lambda |-> writer.sensor.failureRate])
    /\ writer' = [pc |-> "idle", logical |-> writer.logical,
                  before |-> writer.logical]
    /\ UNCHANGED <<sensors, exponentialModels, fret, reader>>

\* sensor->setHealth(h)
Writer_setHealth ==
    /\ writer.pc = "idle"
    /\ \E i \in DOMAIN sensors, h \in {ReportedHealth} :
           /\ sensors[i].health # h
           /\ sensors' = [sensors EXCEPT ![i].health = h]
           /\ writer' = [pc |-> "idle",
                         logical |-> [writer.logical EXCEPT ![i].health = h],
                         before |-> [writer.logical EXCEPT ![i].health = h]]
           /\ reader' = Meets([writer.logical EXCEPT ![i].health = h])
    /\ UNCHANGED <<exponentialModels, erlangModels, fret>>

\* the query is entered: double sum = 0.0, or stats = {0, 0, 0, 0} and
\* stats.total = sensors.size()
Reader_enter ==
    /\ reader.pc = "idle"
    /\ \E fn \in {"FleetReliabilityManager::calculateFleetMTBF",
                  "FleetReliabilityManager::calculateFleetMTTF",
                  "FleetReliabilityManager::getSensorStats"} :
           reader' = [pc |-> "entered", fn |-> fn,
                      serial |-> {writer.logical, writer.before},
                      acc |-> IF fn = "FleetReliabilityManager::getSensorStats"
                              THEN [total |-> Len(sensors), active |-> 0,
                                    warning |-> 0, failed |-> 0]
                              ELSE Num(0)]
    /\ UNCHANGED <<sensors, exponentialModels, erlangModels, fret, writer>>

\* the vector a query iterates over
Iterated(fn) ==
    CASE fn = "FleetReliabilityManager::calculateFleetMTBF" -> exponentialModels
      [] fn = "FleetReliabilityManager::calculateFleetMTTF" -> erlangModels
      [] fn = "FleetReliabilityManager::getSensorStats" -> sensors

\* for(const auto& x : v): begin() and end() are taken once
Reader_for ==
    /\ reader.pc = "entered"
    /\ reader' = [pc |-> "loop", fn |-> reader.fn, serial |-> reader.serial,
                  acc |-> reader.acc, i |-> 1, end |-> Len(Iterated(reader.fn))]
    /\ UNCHANGED <<sensors, exponentialModels, erlangModels, fret, writer>>

\* one iteration of the loop body
Reader_body ==
    /\ reader.pc = "loop"
    /\ reader.i <= reader.end
    /\ LET x == Iterated(reader.fn)[reader.i]
           acc == CASE reader.fn = "FleetReliabilityManager::calculateFleetMTBF"
                         -> FAdd(reader.acc, ExponentialModel_mtbf(x.lambda))
                    [] reader.fn = "FleetReliabilityManager::calculateFleetMTTF"
                         -> FAdd(reader.acc, ErlangModel_mttf(x.k, x.lambda))
                    [] reader.fn = "FleetReliabilityManager::getSensorStats"
                         -> IF x.health > 70
                            THEN [reader.acc EXCEPT !.active = @ + 1]
                            ELSE IF x.health > 30
                            THEN [reader.acc EXCEPT !.warning = @ + 1]
                            ELSE [reader.acc EXCEPT !.failed = @ + 1]
       IN  reader' = [reader EXCEPT !.acc = acc, !.i = @ + 1]
    /\ UNCHANGED <<sensors, exponentialModels, erlangModels, fret, writer>>

\* return sum / v.size(), or return stats
Reader_return ==
    /\ reader.pc = "loop"
    /\ reader.i > reader.end
    /\ fret' = [fn |-> reader.fn, serial |-> reader.serial,
                val |-> IF reader.fn = "FleetReliabilityManager::getSensorStats"
                        THEN reader.acc
                        ELSE FDiv(reader.acc, Num(Len(Iterated(reader.fn))))]
    /\ reader' = [pc |-> "idle"]
    /\ UNCHANGED <<sensors, exponentialModels, erlangModels, writer>>

NextConcurrent ==
    /\ \/ Writer_addSensor_sensors
       \/ Writer_addSensor_exponentialModels
       \/ Writer_addSensor_erlangModels
       \/ Writer_setHealth
       \/ Reader_enter
       \/ Reader_for
       \/ Reader_body
       \/ Reader_return
    /\ UNCHANGED <<survivalVars, queueVars, dashboardVars>>

SpecConcurrent ==
    /\ InitConcurrent
    /\ [][NextConcurrent]_vars

---------------------------------------------------------------------------
(* Haskell: generateMaintenanceSchedule.                                   *)

\* sortBy (comparing field): a stable sort, equal keys keep their order
RECURSIVE sortBy_insert(_, _, _)
sortBy_insert(field, x, sorted) ==
    IF sorted = <<>> THEN <<x>>
    ELSE IF Head(sorted)[field] >= x[field] THEN <<x>> \o sorted
    ELSE <<Head(sorted)>> \o sortBy_insert(field, x, Tail(sorted))

\* sortBy that leaves the list as it found it
sortBy_unsorted(field, xs) == xs

RECURSIVE sortBy(_, _)
sortBy(field, xs) ==
    IF xs = <<>> THEN <<>>
    ELSE sortBy_insert(field, Head(xs), sortBy(field, Tail(xs)))

\* filter (\s -> health s < 30) sensors
RECURSIVE filterFailed(_)
filterFailed(ss) ==
    IF ss = <<>> THEN <<>>
    ELSE IF Head(ss).health < 30 THEN <<Head(ss)>> \o filterFailed(Tail(ss))
    ELSE filterFailed(Tail(ss))

\* filter (\s -> health s > 30 && health s <= 70) sensors
RECURSIVE filterWarning(_)
filterWarning(ss) ==
    IF ss = <<>> THEN <<>>
    ELSE IF Head(ss).health > 30 /\ Head(ss).health <= 70
         THEN <<Head(ss)>> \o filterWarning(Tail(ss))
    ELSE filterWarning(Tail(ss))

take(n, xs) == IF Len(xs) <= n THEN xs ELSE SubSeq(xs, 1, n)

\* makeTask that sends each crew out once per task of the schedule
makeTask_perTask(crews, idx, sensor) ==
    [taskSensorId |-> sensor.id,
     taskPriority |-> IF sensor.health < 30 THEN 1 ELSE 2,
     assignedCrew |-> crews[(idx % Len(crews)) + 1],
     estimatedArrival |-> idx * 45 + 15]

makeTask(crews, idx, sensor) ==
    [taskSensorId |-> sensor.id,
     taskPriority |-> IF sensor.health < 30 THEN 1 ELSE 2,
     assignedCrew |-> crews[(idx % Len(crews)) + 1],
     estimatedArrival |-> (idx \div Len(crews)) * 45 + 15]

\* tasks = zipWith makeTask [0..] prioritySensors
generateMaintenanceSchedule(ss, crews) ==
    LET failedSensors == sortBy("queuePosition", filterFailed(ss))
        warningSensors == sortBy("health", filterWarning(ss))
        prioritySensors == take(20, failedSensors \o warningSensors)
    IN  [idx \in 1..Len(prioritySensors) |->
            makeTask(crews, idx - 1, prioritySensors[idx])]

(* Schedules of fleets of up to MaxDevices devices whose healths run       *)
(* through ScheduleHealths from any starting point and whose queue         *)
(* positions repeat, as those of sampleSensors do.                         *)

ScheduleHealths == <<25, 50, 80, 30, 20, 70, 31, 29>>

ScheduleFleet(n, shift) ==
    [i \in 1..n |->
        Sensor(i - 1, ScheduleHealths[((i + shift) % Len(ScheduleHealths)) + 1],
               [failureRate |-> Rat(1, 2000), kStages |-> 3], (i * 7) % 10)]

CrewLists == {<<"CREW-A">>, <<"CREW-A", "CREW-B">>, <<"CREW-A", "CREW-B", "CREW-C">>}

InitSchedule ==
    /\ \E n \in 0..MaxDevices, shift \in 0..(Len(ScheduleHealths) - 1) :
           sensors = ScheduleFleet(n, shift)
    /\ exponentialModels = <<>>
    /\ erlangModels = <<>>
    /\ fret = NoCall
    /\ writer = [pc |-> "idle"]
    /\ reader = [pc |-> "idle"]
    /\ activeTab = "map"
    /\ stats = [total |-> 0, active |-> 0, failed |-> 0, warning |-> 0]
    /\ selectedSensor = null
    /\ crewStatus = <<>>
    /\ mounted = FALSE
    /\ model = [fn |-> "none"]
    /\ prevCall = NoCall
    /\ lastCall = NoCall
    /\ qm = [fn |-> "none"]
    /\ qret = NoCall

CallGenerateMaintenanceSchedule ==
    \E crews \in CrewLists :
        FReturned("generateMaintenanceSchedule",
                  [crews |-> crews,
                   tasks |-> generateMaintenanceSchedule(sensors, crews)])

NextSchedule ==
    /\ CallGenerateMaintenanceSchedule
    /\ UNCHANGED <<survivalVars, queueVars, threadVars, dashboardVars>>

SpecSchedule ==
    /\ InitSchedule
    /\ [][NextSchedule]_vars

---------------------------------------------------------------------------
(* Dashboard: the IoTTrackerInterface component.  Its state is activeTab,  *)
(* sensors, stats, selectedSensor and crewStatus; the mount effect fills   *)
(* sensors, stats and crewStatus in one batch of state updates.            *)

\* getHealthColor with the upper tier starting at 70
getHealthColor_inclusive(health) ==
    IF health >= 70 THEN "#00ff00"
    ELSE IF health > 30 THEN "#ffaa00"
    ELSE "#ff0000"

getHealthColor(health) ==
    IF health > 70 THEN "#00ff00"
    ELSE IF health > 30 THEN "#ffaa00"
    ELSE "#ff0000"

\* the STATUS column of the sensors table
StatusGlyph(sensor) ==
    IF sensor.health > 70 THEN "check"
    ELSE IF sensor.health > 30 THEN "warning"
    ELSE "cross"

\* the ALERTS figure of the status bar
Alerts == stats.failed

Tabs == {"map", "sensors", "crews", "stats", "control"}

\* values Math.random() * 100 takes, in the order a run of the effect draws
\* them from one of MockDraws starting points
MockHealths == <<29, 30, 31, 70, 71, 0, 99, 50>>
MockDraws == 0..(Len(MockHealths) - 1)

mockSensors(draw) ==
    [i \in 1..50 |->
        [id |-> i, type |-> <<"TRAFFIC", "AIR_QUAL", "WATER">>[((i - 1) % 3) + 1],
         health |-> MockHealths[((i + draw) % Len(MockHealths)) + 1],
         queuePos |-> (i * 7 + draw) % 10]]

InitDashboard ==
    /\ activeTab = "map"
    /\ sensors = <<>>
    /\ stats = [total |-> 0, active |-> 0, failed |-> 0, warning |-> 0]
    /\ selectedSensor = null
    /\ crewStatus = <<>>
    /\ mounted = FALSE
    /\ exponentialModels = <<>>
    /\ erlangModels = <<>>
    /\ fret = NoCall
    /\ writer = [pc |-> "idle"]
    /\ reader = [pc |-> "idle"]
    /\ model = [fn |-> "none"]
    /\ prevCall = NoCall
    /\ lastCall = NoCall
    /\ qm = [fn |-> "none"]
    /\ qret = NoCall

\* useEffect(() => { ... }, [])
MountEffect ==
    /\ ~mounted
    /\ \E draw \in MockDraws :
           LET mock == mockSensors(draw)
               active == Cardinality({i \in DOMAIN mock : mock[i].health > 70})
               warning == Cardinality({i \in DOMAIN mock :
                                           mock[i].health > 30 /\ mock[i].health <= 70})
               failed == Cardinality({i \in DOMAIN mock : mock[i].health <= 30})
           IN  /\ sensors' = mock
               /\ stats' = [total |-> Len(mock), active |-> active,
                            warning |-> warning, failed |-> failed]
    /\ crewStatus' = <<[id |-> "CREW-A", assigned |-> 3, location |-> "SECTOR-NE",
                        eta |-> 12],
                       [id |-> "CREW-B", assigned |-> 1, location |-> "SECTOR-SW",
                        eta |-> 45],
                       [id |-> "CREW-C", assigned |-> 0, location |-> "BASE",
                        eta |-> 0]>>
    /\ mounted' = TRUE
    /\ UNCHANGED <<activeTab, selectedSensor>>

\* onClick={() => setActiveTab(tab.id)}
ClickTab ==
    /\ \E tab \in Tabs : activeTab' = tab
    /\ UNCHANGED <<sensors, stats, selectedSensor, crewStatus, mounted>>

\* onClick={() => setSelectedSensor(sensor)} on a dot of the map
ClickSensor ==
    /\ activeTab = "map"
    /\ \E i \in DOMAIN sensors : selectedSensor' = sensors[i]
    /\ UNCHANGED <<sensors, stats, activeTab, crewStatus, mounted>>

NextDashboard ==
    /\ \/ MountEffect
       \/ ClickTab
       \/ ClickSensor
    /\ UNCHANGED <<survivalVars, queueVars, threadVars>>
    /\ UNCHANGED <<exponentialModels, erlangModels, fret>>

SpecDashboard ==
    /\ InitDashboard
    /\ [][NextDashboard]_vars

---------------------------------------------------------------------------
(* Survival claims.                                                        *)

ErlangReliabilityFns == {"ErlangModel::reliability", "erlang_reliability",
                         "erlangReliability"}
ExponentialReliabilityFns == {"ExponentialModel::reliability",
                              "exponential_reliability", "exponentialReliability"}

\* the survival sum of section 4.2, term by term with explicit powers
RECURSIVE SurvivalSum(_, _, _)
SurvivalSum(k, lambda, t) ==
    IF k <= 0 THEN Num(0)
    ELSE FAdd(SurvivalSum(k - 1, lambda, t),
              FDiv(FMul(Exp(FNeg(FMul(lambda, t))), FPow(FMul(lambda, t), k - 1)),
                   Num(Fact(k - 1))))

IsScenarioB(call) ==
    model.k = 3 /\ model.lambda = Rat(1, 2000) /\ call.t = Num(1000)

\* C1: every Erlang reliability function returns the survival sum
\* R(t) = sum_{i<k} e^(-lambda t) (lambda t)^i / i! itself (so F = 1 - R), and
\* for k = 3, lambda = 0.0005, t = 1000 the value returned is about 0.9856.
C1_ErlangReliabilityIsSurvivalSum ==
    lastCall.fn \in ErlangReliabilityFns =>
        /\ lastCall.ret = SurvivalSum(model.k, model.lambda, lastCall.t)
        /\ IsScenarioB(lastCall) =>
               /\ Near(lastCall.ret, Rat(9856, 10000), Rat(5, 10000))
               /\ Near(FSub(Num(1), lastCall.ret), Rat(144, 10000), Rat(5, 10000))

\* C2: every Exponential and every Erlang reliability function returns 1 at
\* t = 0, for every valid lambda and k.
C2_ReliabilityAtZeroIsOne ==
    /\ lastCall.fn \in ErlangReliabilityFns \cup ExponentialReliabilityFns
    /\ lastCall.t = Num(0)
    => lastCall.ret = Num(1)

\* the Exponential function a language pairs with each of its Erlang functions
ExponentialTwin(fn) ==
    CASE fn = "ErlangModel::reliability" -> "ExponentialModel::reliability"
      [] fn = "ErlangModel::pdf" -> "ExponentialModel::pdf"
      [] fn = "ErlangModel::mttf" -> "ExponentialModel::mtbf"
      [] fn = "erlang_reliability" -> "exponential_reliability"
      [] fn = "erlang_mttf" -> "exponential_mtbf"
      [] fn = "erlangReliability" -> "exponentialReliability"
      [] fn = "erlangMTTF" -> "exponentialMTBF"
      [] OTHER -> "none"

\* C3: with k = 1 an Erlang function called after its Exponential twin with the
\* same lambda (and the same t) returns the same value: reliability, mttf = mtbf
\* and pdf, t = 0 included.
C3_ErlangOneStageIsExponential ==
    /\ model.k = 1
    /\ prevCall.fn # "none"
    /\ prevCall.fn = ExponentialTwin(lastCall.fn)
    /\ prevCall.t = lastCall.t
    => lastCall.ret = prevCall.ret

\* C4: for a fixed model, a reliability function called at t1 and then at
\* t2 >= t1 returns a value that is not larger the second time.
C4_ReliabilityNonIncreasing ==
    /\ lastCall.fn \in ErlangReliabilityFns \cup ExponentialReliabilityFns
    /\ prevCall.fn = lastCall.fn
    /\ FLe(prevCall.t, lastCall.t)
    => FGe(prevCall.ret, lastCall.ret)

---------------------------------------------------------------------------
(* Queue claims.                                                           *)

\* section 4.4, from the three inputs
QRho == FDiv(qm.arrivalRate, FMul(Num(qm.numServers), qm.serviceRate))
QOffered == FDiv(qm.arrivalRate, qm.serviceRate)

RECURSIVE QSum(_)
QSum(n) == IF n < 0 THEN Num(0)
           ELSE FAdd(QSum(n - 1), FDiv(FPow(QOffered, n), Num(Fact(n))))

QP0 == FDiv(Num(1),
            FAdd(QSum(qm.numServers - 1),
                 FDiv(FPow(QOffered, qm.numServers),
                      FMul(Num(Fact(qm.numServers)), FSub(Num(1), QRho)))))
QLq == FDiv(FMul(FMul(QP0, FPow(QOffered, qm.numServers)), QRho),
            FMul(Num(Fact(qm.numServers)),
                 FMul(FSub(Num(1), QRho), FSub(Num(1), QRho))))
QWq == FDiv(QLq, qm.arrivalRate)

QValidInputs == FGt(qm.arrivalRate, Num(0)) /\ FGt(qm.serviceRate, Num(0))
                /\ qm.numServers >= 1
QStable == QValidInputs /\ FLt(QRho, Num(1))

\* the numbers a caller can read as queue length or wait time from a result
NumericLqWq(call) ==
    CASE call.fn \in {"QueueingModel::avgQueueLength", "QueueingModel::avgWaitTime"}
            -> {call.val}
      [] call.fn = "analyze_maintenance_queue"
            -> {call.val.avg_queue, call.val.avg_wait}
      [] call.fn = "calculateQueueMetrics"
            -> IF call.val.maybe = "Just"
               THEN {call.val.avgQueueLength, call.val.avgWaitTimeMinutes}
               ELSE {}
      [] call.fn = "mmc_queue_metrics"
            -> IF call.val.stable
               THEN {call.val.average_queue_length,
                     call.val.average_waiting_time_hours,
                     call.val.average_waiting_time_minutes}
               ELSE {}
      [] OTHER -> {}

\* C5: whenever rho >= 1 the evaluation gives a distinguished unstable outcome:
\* no result of any queue function lets the caller read a number (such as the
\* sentinel -1) as queue length or wait time.
C5_UnstableIsNeverNumeric ==
    FGe(QRho, Num(1)) => NumericLqWq(qret) = {}

IsScenarioC ==
    qm.arrivalRate = Rat(1, 20) /\ qm.serviceRate = Rat(3, 20) /\ qm.numServers = 3

\* what a result reports as utilization, P0, Lq and Wq (Wq in hours)
Reports(call) ==
    CASE call.fn = "QueueingModel::getUtilization" -> [utilization |-> call.val]
      [] call.fn = "QueueingModel::avgQueueLength" -> [Lq |-> call.val]
      [] call.fn = "QueueingModel::avgWaitTime" -> [Wq |-> call.val]
      [] call.fn = "analyze_maintenance_queue"
            -> [utilization |-> call.val.util, Lq |-> call.val.avg_queue,
                Wq |-> call.val.avg_wait]
      [] call.fn = "calculateQueueMetrics" /\ call.val.maybe = "Just"
            -> [utilization |-> call.val.utilization,
                Lq |-> call.val.avgQueueLength,
                Wq |-> FDiv(call.val.avgWaitTimeMinutes, Num(60))]
      [] call.fn = "mmc_queue_metrics" /\ call.val.stable
            -> [utilization |-> call.val.utilization, P0 |-> call.val.p0,
                Lq |-> call.val.average_queue_length,
                Wq |-> call.val.average_waiting_time_hours]
      [] OTHER -> [none |-> TRUE]

Reported(call, field) == field \in DOMAIN Reports(call)

\* C6: for stable inputs every queue function reports utilization as the
\* fraction rho, P0 by the Erlang-C normalization, Lq by the Erlang-C formula
\* and Wq = Lq / arrivalRate; for 0.05, 0.15, 3 servers that is 1/9 (about
\* 0.1111), Lq = 1/1608 (about 6.2e-4) and Wq * 60 about 0.75 minutes.
C6_StableQueueMetrics ==
    QStable =>
        /\ Reported(qret, "utilization") =>
               /\ Reports(qret).utilization = QRho
               /\ IsScenarioC =>
                      Near(Reports(qret).utilization, Rat(1111, 10000), Rat(1, 10000))
        /\ Reported(qret, "P0") => Reports(qret).P0 = QP0
        /\ Reported(qret, "Lq") =>
               /\ Reports(qret).Lq = QLq
               /\ IsScenarioC => Reports(qret).Lq = Rat(1, 1608)
        /\ Reported(qret, "Wq") =>
               /\ Reports(qret).Wq = QWq
               /\ IsScenarioC =>
                      Near(FMul(Reports(qret).Wq, Num(60)), Rat(75, 100), Rat(1, 100))

\* C7: whenever the queue is stable (rho < 1, arrivalRate > 0, serviceRate > 0,
\* servers >= 1) every queue length and wait time returned is >= 0.
C7_StableLqWqNonNegative ==
    QStable => \A v \in NumericLqWq(qret) : FGe(v, Num(0))

\* a stable queue whose length and wait were returned, and are positive
C7_Witness ==
    /\ QStable
    /\ qret.fn \in {"QueueingModel::avgWaitTime", "analyze_maintenance_queue",
                    "calculateQueueMetrics", "mmc_queue_metrics"}
    /\ NumericLqWq(qret) # {}
    /\ \A v \in NumericLqWq(qret) : FGt(v, Num(0))

---------------------------------------------------------------------------
(* Fleet and cascade claims.                                               *)

ActiveCount == Cardinality({i \in DOMAIN sensors : sensors[i].health > 70})
WarningCount ==
    Cardinality({i \in DOMAIN sensors :
                     sensors[i].health > 30 /\ sensors[i].health <= 70})
FailedCount == Cardinality({i \in DOMAIN sensors : sensors[i].health <= 30})

Tier(health) ==
    IF health > 70 THEN "Active" ELSE IF health > 30 THEN "Warning" ELSE "Failed"

\* C8: every device falls in exactly one tier - active iff health > 70,
\* warning iff 30 < health <= 70, failed iff health <= 30 - so the counts every
\* implementation reports are those three numbers and add up to the fleet size.
C8_HealthTiers ==
    /\ fret.fn = "FleetReliabilityManager::getSensorStats" =>
           /\ fret.val.active = ActiveCount
           /\ fret.val.warning = WarningCount
           /\ fret.val.failed = FailedCount
           /\ fret.val.total = Len(sensors)
           /\ fret.val.active + fret.val.warning + fret.val.failed = fret.val.total
    /\ fret.fn = "classify_sensors_by_health" =>
           /\ fret.val.active = ActiveCount
           /\ fret.val.warning = WarningCount
           /\ fret.val.failed = FailedCount
           /\ fret.val.active + fret.val.warning + fret.val.failed = Len(sensors)
    /\ fret.fn = "calculateFleetMetrics" =>
           /\ fret.val.activeSensors = ActiveCount
           /\ fret.val.warningSensors = WarningCount
           /\ fret.val.failedSensors = FailedCount
           /\ fret.val.totalSensors = Len(sensors)
           /\ fret.val.activeSensors + fret.val.warningSensors
                  + fret.val.failedSensors = fret.val.totalSensors
    /\ fret.fn = "classifySensor" =>
           fret.val.tier = Tier(sensors[fret.val.i].health)

\* getSensorStats has counted a fleet holding a device at health 70 and one at
\* health 30
C8_Witness ==
    /\ fret.fn = "FleetReliabilityManager::getSensorStats"
    /\ \E i, j \in DOMAIN sensors :
           sensors[i].health = 70 /\ sensors[j].health = 30
    /\ fret.val.warning = 1
    /\ fret.val.failed = 1

CascadeFns ==
    {"FleetReliabilityManager::analyzeCascadeRisk", "analyze_cascade_risk",
     "analyzeCascadeRisk", "R analyze_cascade_risk"}

CascadeReturned ==
    /\ fret.fn \in CascadeFns
    /\ "riskFactor" \in DOMAIN fret.val

\* C9: the cascade thresholds are strict - multiplier 1.5 iff riskFactor > 0.20,
\* 1.2 iff 0.10 < riskFactor <= 0.20, otherwise 1.0; HIGH iff riskFactor > 0.15,
\* MEDIUM iff 0.08 < riskFactor <= 0.15, otherwise LOW; 5 failed of 50 gives
\* riskFactor 0.10, multiplier 1.0 and MEDIUM.
C9_CascadeThresholdsAreStrict ==
    CascadeReturned =>
        LET r == fret.val
            rf == r.riskFactor
        IN  /\ (r.dependencyMultiplier = Rat(3, 2)) <=> FGt(rf, Rat(1, 5))
            /\ (r.dependencyMultiplier = Rat(6, 5)) <=>
                   (FGt(rf, Rat(1, 10)) /\ FLe(rf, Rat(1, 5)))
            /\ (r.dependencyMultiplier = Num(1)) <=> ~FGt(rf, Rat(1, 10))
            /\ r.dependencyMultiplier \in {Rat(3, 2), Rat(6, 5), Num(1)}
            /\ (r.riskLevel = "HIGH") <=> FGt(rf, Rat(3, 20))
            /\ (r.riskLevel = "MEDIUM") <=>
                   (FGt(rf, Rat(2, 25)) /\ FLe(rf, Rat(3, 20)))
            /\ (r.riskLevel = "LOW") <=> ~FGt(rf, Rat(2, 25))
            /\ (FailedCount = 5 /\ Len(sensors) = 50) =>
                   /\ rf = Rat(1, 10)
                   /\ r.dependencyMultiplier = Num(1)
                   /\ r.riskLevel = "MEDIUM"

\* analyzeCascadeRisk has run on 5 failed devices of 50
C9_Witness ==
    /\ fret.fn = "FleetReliabilityManager::analyzeCascadeRisk"
    /\ FailedCount = 5
    /\ Len(sensors) = 50
    /\ fret.val.riskFactor = Rat(1, 10)
    /\ fret.val.riskLevel = "MEDIUM"

\* C10: the failed count the cascade analysis uses (its current-failures field
\* and the numerator of riskFactor) is the number of devices with health <= 30,
\* the failed count of the fleet metrics; a device at exactly 30 counts in both.
C10_CascadeFailedCountIsFleetFailedCount ==
    CascadeReturned =>
        /\ fret.val.currentFailures = FailedCount
        /\ fret.val.riskFactor = FDiv(Num(FailedCount), Num(Len(sensors)))

---------------------------------------------------------------------------
(* Error-handling claims.                                                  *)

AggregateFns ==
    {"FleetReliabilityManager::calculateFleetMTBF",
     "FleetReliabilityManager::calculateFleetMTTF",
     "FleetReliabilityManager::calculateFleetReliability",
     "calculateFleetMetrics"}

\* C11: fleet aggregation and cascade analysis of a collection of zero devices
\* fail with EmptyFleet; neither returns a number, NaN or the result of a
\* division by zero.
C11_EmptyFleetIsRejected ==
    (sensors = <<>> /\ fret.fn \in AggregateFns \cup CascadeFns) =>
        fret.val = [error |-> "EmptyFleet"]

ValidParameters(k, lambda) == FGt(lambda, Num(0)) /\ k >= 1

\* C12: parameters outside lambda > 0, k >= 1 are rejected - no Exponential or
\* Erlang model is ever built from them, no device record carrying them enters
\* the fleet, and so no reliability, mean time or pdf is computed from them.
C12_InvalidParametersRejected ==
    /\ model # [fn |-> "none"] => ValidParameters(model.k, model.lambda)
    /\ \A i \in DOMAIN sensors :
           ValidParameters(sensors[i].kStages, sensors[i].failureRate)
    /\ \A i \in DOMAIN erlangModels :
           ValidParameters(erlangModels[i].k, erlangModels[i].lambda)
    /\ \A i \in DOMAIN exponentialModels :
           FGt(exponentialModels[i].lambda, Num(0))

\* C13: evaluating the queue with a server count below 1 fails with
\* InvalidServerCount: no metrics, no stable / unstable verdict.
C13_InvalidServerCountRejected ==
    (qm.numServers < 1 /\ qret.fn # "none") =>
        /\ qret.fn # "QueueingModel::isStable"
        /\ qret.val = [error |-> "InvalidServerCount"]

---------------------------------------------------------------------------
(* Fleet aggregation claims.                                               *)

\* xs[1] + ... + xs[n]
RECURSIVE Total(_, _)
Total(xs, n) == IF n = 0 THEN Num(0) ELSE FAdd(Total(xs, n - 1), xs[n])

Mean(xs) == FDiv(Total(xs, Len(xs)), Num(Len(xs)))

MeanMTBF == Mean([i \in DOMAIN sensors |-> FDiv(Num(1), sensors[i].failureRate)])

MeanMTTF ==
    Mean([i \in DOMAIN sensors |->
             FDiv(Num(sensors[i].kStages), sensors[i].failureRate)])

MeanReliability(T) ==
    Mean([i \in DOMAIN sensors |->
             SurvivalSum(sensors[i].kStages, sensors[i].failureRate, T)])

\* C14: for a non-empty fleet and a horizon T >= 0, fleetMTBF is the mean of
\* 1/lambda_i, fleetMTTF the mean of k_i/lambda_i and fleetReliability(T) the
\* mean of the devices' Erlang reliabilities, each with its own (k_i, lambda_i).
C14_FleetMeans ==
    sensors # <<>> =>
        /\ fret.fn = "FleetReliabilityManager::calculateFleetMTBF" =>
               fret.val = MeanMTBF
        /\ fret.fn = "FleetReliabilityManager::calculateFleetMTTF" =>
               fret.val = MeanMTTF
        /\ fret.fn = "FleetReliabilityManager::calculateFleetReliability" =>
               fret.val.ret = MeanReliability(fret.val.timeHorizon)
        /\ fret.fn = "calculateFleetMetrics" =>
               /\ fret.val.fleetMTBF = MeanMTBF
               /\ fret.val.fleetMTTF = MeanMTTF
               /\ fret.val.fleetReliability = MeanReliability(fret.val.timeHorizon)

---------------------------------------------------------------------------
(* Cascade policy claims.                                                  *)

\* what each code path of the cascade analysis returns for the fleet at hand
CascadePaths ==
    {FleetReliabilityManager_analyzeCascadeRisk(sensors),
     analyze_cascade_risk(
         classify_sensors_by_health(Len(sensors),
             [i \in DOMAIN sensors |-> sensors[i].health]).failed,
         Len(sensors)),
     analyzeCascadeRisk(sensors),
     R_analyze_cascade_risk(sensors)}

\* C15: expectedAdditionalFailures follows one policy - the value a cascade
\* analysis returns for a fleet is the value every other code path returns for
\* the same failed and total counts; rounding and truncation are not mixed.
C15_OneRoundingPolicy ==
    CascadeReturned =>
        \A r \in CascadePaths :
            (r.currentFailures = fret.val.currentFailures) =>
                r.expectedAdditional = fret.val.expectedAdditional

---------------------------------------------------------------------------
(* Queue policy claims.                                                    *)

\* C16: with arrival rate 0 (service rate > 0, servers >= 1) the queue is
\* reported stable and the wait time returned is 0 - not NaN, not an error.
C16_NoTrafficWaitIsZero ==
    (qm.arrivalRate = Num(0) /\ FGt(qm.serviceRate, Num(0)) /\ qm.numServers >= 1) =>
        /\ qret.fn = "QueueingModel::isStable" => qret.val = TRUE
        /\ qret.fn = "calculateQueueMetrics" => qret.val.maybe = "Just"
        /\ qret.fn = "mmc_queue_metrics" => qret.val.stable
        /\ Reported(qret, "Wq") => Reports(qret).Wq = Num(0)

---------------------------------------------------------------------------
(* Cross-language claims.                                                  *)

AllErlangReliabilityFns == ErlangReliabilityFns \cup {"R erlang_reliability"}

\* C17: for the same (k, lambda, t) the C++, Fortran, Haskell and R Erlang
\* reliability functions return the same value, within 0.001.
C17_ErlangReliabilityAcrossLanguages ==
    /\ prevCall.fn \in AllErlangReliabilityFns
    /\ lastCall.fn \in AllErlangReliabilityFns
    /\ prevCall.t = lastCall.t
    => Near(prevCall.ret, lastCall.ret, Rat(1, 1000))

---------------------------------------------------------------------------
(* Frame claims.                                                           *)

FleetQueryFns ==
    {"FleetReliabilityManager::getSensorStats",
     "FleetReliabilityManager::analyzeCascadeRisk",
     "FleetReliabilityManager::calculateFleetMTBF",
     "FleetReliabilityManager::calculateFleetMTTF",
     "FleetReliabilityManager::calculateFleetReliability",
     "classify_sensors_by_health", "analyze_cascade_risk",
     "calculateFleetMetrics", "analyzeCascadeRisk", "classifySensor",
     "R analyze_cascade_risk"}

\* the result of the query `call`, asked again in the current state
AskedAgain(call) ==
    CASE call.fn = "FleetReliabilityManager::getSensorStats"
            -> FleetReliabilityManager_getSensorStats(sensors)
      [] call.fn = "FleetReliabilityManager::analyzeCascadeRisk"
            -> FleetReliabilityManager_analyzeCascadeRisk(sensors)
      [] call.fn = "FleetReliabilityManager::calculateFleetMTBF"
            -> FleetReliabilityManager_calculateFleetMTBF(exponentialModels)
      [] call.fn = "FleetReliabilityManager::calculateFleetMTTF"
            -> FleetReliabilityManager_calculateFleetMTTF(erlangModels)
      [] call.fn = "FleetReliabilityManager::calculateFleetReliability"
            -> [timeHorizon |-> call.val.timeHorizon,
                ret |-> FleetReliabilityManager_calculateFleetReliability(
                            erlangModels, call.val.timeHorizon)]
      [] call.fn = "classify_sensors_by_health"
            -> classify_sensors_by_health(Len(sensors),
                   [i \in DOMAIN sensors |-> sensors[i].health])
      [] call.fn = "analyze_cascade_risk"
            -> analyze_cascade_risk(
                   classify_sensors_by_health(Len(sensors),
                       [i \in DOMAIN sensors |-> sensors[i].health]).failed,
                   Len(sensors))
      [] call.fn = "calculateFleetMetrics"
            -> [timeHorizon |-> call.val.timeHorizon]
                   @@ calculateFleetMetrics(sensors, call.val.timeHorizon)
      [] call.fn = "analyzeCascadeRisk" -> analyzeCascadeRisk(sensors)
      [] call.fn = "classifySensor"
            -> [i |-> call.val.i, tier |-> classifySensor(sensors[call.val.i])]
      [] call.fn = "R analyze_cascade_risk" -> R_analyze_cascade_risk(sensors)

---------------------------------------------------------------------------
(* Concurrency claims.                                                     *)

\* what the query fn returns when it runs alone on the device list ss
RunAlone(fn, ss) ==
    CASE fn = "FleetReliabilityManager::calculateFleetMTBF"
            -> FleetReliabilityManager_calculateFleetMTBF(ModelsOf(ss))
      [] fn = "FleetReliabilityManager::calculateFleetMTTF"
            -> FleetReliabilityManager_calculateFleetMTTF(ModelsOf(ss))
      [] fn = "FleetReliabilityManager::getSensorStats"
            -> FleetReliabilityManager_getSensorStats(ss)

\* C19: an operation run concurrently with others, without a lock, returns what
\* it returns in some order in which the operations run one after another.
C19_ConcurrentAsSequential ==
    "serial" \in DOMAIN fret =>
        \E ss \in fret.serial : fret.val = RunAlone(fret.fn, ss)

---------------------------------------------------------------------------
(* Informational fields.                                                   *)

\* the same devices with other ids, kinds, uptimes and queue positions
Relabelled(ss) ==
    [i \in DOMAIN ss |->
        [ss[i] EXCEPT !.id = 100 - @,
                      !.type = IF @ = "TRAFFIC" THEN "WATER_FLOW" ELSE "TRAFFIC",
                      !.uptimeHours = 8760 - @,
                      !.queuePosition = 9 - @]]

\* the same devices, relabelled and with other health values
OtherHealth(ss) ==
    [i \in DOMAIN ss |-> [Relabelled(ss)[i] EXCEPT !.health = 100 - @]]

\* C20: id, kind, uptimeHours and queuePosition do not reach any result - a
\* fleet that differs in them only gives the same tier counts, means and cascade
\* risk; health reaches the tier counts and the cascade risk only, never
\* fleetMTBF, fleetMTTF or fleetReliability; and a change of the device list
\* leaves the queue model and its results alone.
C20_InformationalFieldsDoNotMatter ==
    /\ [](/\ fret.fn = "FleetReliabilityManager::getSensorStats" =>
                 fret.val = FleetReliabilityManager_getSensorStats(Relabelled(sensors))
          /\ fret.fn = "FleetReliabilityManager::analyzeCascadeRisk" =>
                 fret.val = FleetReliabilityManager_analyzeCascadeRisk(
                                Relabelled(sensors))
          /\ fret.fn = "analyzeCascadeRisk" =>
                 fret.val = analyzeCascadeRisk(Relabelled(sensors))
          /\ fret.fn = "FleetReliabilityManager::calculateFleetMTBF" =>
                 fret.val = FleetReliabilityManager_calculateFleetMTBF(
                                ModelsOf(OtherHealth(sensors)))
          /\ fret.fn = "FleetReliabilityManager::calculateFleetMTTF" =>
                 fret.val = FleetReliabilityManager_calculateFleetMTTF(
                                ModelsOf(OtherHealth(sensors)))
          /\ fret.fn = "FleetReliabilityManager::calculateFleetReliability" =>
                 fret.val.ret = FleetReliabilityManager_calculateFleetReliability(
                                    ModelsOf(OtherHealth(sensors)),
                                    fret.val.timeHorizon)
          /\ fret.fn = "calculateFleetMetrics" =>
                 LET same == calculateFleetMetrics(Relabelled(sensors),
                                                   fret.val.timeHorizon)
                     other == calculateFleetMetrics(OtherHealth(sensors),
                                                    fret.val.timeHorizon)
                 IN  /\ fret.val = [timeHorizon |-> fret.val.timeHorizon] @@ same
                     /\ fret.val.fleetMTBF = other.fleetMTBF
                     /\ fret.val.fleetMTTF = other.fleetMTTF
                     /\ fret.val.fleetReliability = other.fleetReliability)
    /\ [][sensors' # sensors => UNCHANGED <<qm, qret>>]_vars

\* the Haskell cascade analysis has run on a fleet with a failed device
C20_Witness ==
    /\ fret.fn = "analyzeCascadeRisk"
    /\ Len(sensors) = 2
    /\ fret.val.currentFailures = 1

---------------------------------------------------------------------------
(* Order of the devices.                                                   *)

\* the same devices with the first two exchanged
Swapped(ss) ==
    IF Len(ss) < 2 THEN ss ELSE <<ss[2], ss[1]>> \o SubSeq(ss, 3, Len(ss))

\* the same devices with the first moved to the end
Rotated(ss) == IF Len(ss) < 2 THEN ss ELSE Append(Tail(ss), ss[1])

\* the exchange and the rotation generate every permutation
Reordered == {Swapped(sensors), Rotated(sensors)}

---------------------------------------------------------------------------
(* Means and hazard rate.                                                  *)

MTBFFns == {"ExponentialModel::mtbf", "exponential_mtbf", "exponentialMTBF"}
MTTFFns == {"ErlangModel::mttf", "erlang_mttf", "erlangMTTF"}
HazardRateFns == {"ExponentialModel::hazardRate", "exponentialHazardRate"}

\* C22: for valid lambda and k the MTBF returned, times lambda, is 1; the MTTF
\* returned, times lambda, is k (6000 for k = 3, lambda = 0.0005); the hazard
\* rate returned is lambda, the same before and after calls at any time t.
C22_MeansAndHazardRate ==
    /\ lastCall.fn \in MTBFFns => FMul(lastCall.ret, model.lambda) = Num(1)
    /\ lastCall.fn \in MTTFFns =>
           /\ FMul(lastCall.ret, model.lambda) = Num(model.k)
           /\ (model.k = 3 /\ model.lambda = Rat(5, 10000)) => lastCall.ret = Num(6000)
    /\ lastCall.fn \in HazardRateFns =>
           /\ lastCall.ret = model.lambda
           /\ prevCall.fn \in HazardRateFns => prevCall.ret = lastCall.ret

\* ErlangModel(3, 0.0005).mttf() has returned, after a reliability call
C22_Witness ==
    /\ lastCall.fn = "ErlangModel::mttf"
    /\ prevCall.fn = "ErlangModel::reliability"
    /\ model.k = 3
    /\ model.lambda = Rat(5, 10000)
    /\ lastCall.ret = Num(6000)

---------------------------------------------------------------------------
(* Cascade monotonicity and bounds.                                        *)

\* the fleet at hand with one more failed device
OneMoreFailed == FleetOf(Len(sensors), FailedCount + 1)

\* what the code path that returned fret returns for the fleet ss
CascadeOf(ss) ==
    CASE fret.fn = "FleetReliabilityManager::analyzeCascadeRisk"
            -> FleetReliabilityManager_analyzeCascadeRisk(ss)
      [] fret.fn = "analyze_cascade_risk"
            -> analyze_cascade_risk(
                   classify_sensors_by_health(Len(ss),
                       [i \in DOMAIN ss |-> ss[i].health]).failed,
                   Len(ss))
      [] fret.fn = "analyzeCascadeRisk" -> analyzeCascadeRisk(ss)
      [] fret.fn = "R analyze_cascade_risk" -> R_analyze_cascade_risk(ss)

RiskLevelRank(level) ==
    CASE level = "LOW" -> 0 [] level = "MEDIUM" -> 1 [] level = "HIGH" -> 2

\* C23: with the total fixed, one more failed device never lowers riskFactor,
\* dependencyMultiplier or riskLevel.
C23_CascadeRiskIsMonotone ==
    (CascadeReturned /\ FailedCount < Len(sensors)) =>
        LET now == fret.val
            next == CascadeOf(OneMoreFailed)
        IN  /\ next.currentFailures = now.currentFailures + 1
            /\ FLe(now.riskFactor, next.riskFactor)
            /\ FLe(now.dependencyMultiplier, next.dependencyMultiplier)
            /\ RiskLevelRank(now.riskLevel) <= RiskLevelRank(next.riskLevel)

\* 5 failed of 50 analysed by the C++ manager: one more failure raises the
\* multiplier from 1.0 to 1.2
C23_Witness ==
    /\ fret.fn = "FleetReliabilityManager::analyzeCascadeRisk"
    /\ Len(sensors) = 50
    /\ fret.val.currentFailures = 5
    /\ fret.val.dependencyMultiplier = Num(1)
    /\ CascadeOf(OneMoreFailed).dependencyMultiplier = Rat(12, 10)

---------------------------------------------------------------------------
(* The running-term recurrence.                                            *)

\* the sum of terms behind the value an Erlang reliability call returned: the
\* C++ and Fortran functions return 1 - sum, the Haskell one the sum
SumBehind(call) ==
    IF call.fn = "erlangReliability" THEN call.ret ELSE FSub(Num(1), call.ret)

\* C24: the sum an Erlang reliability call accumulates over i = 0..k-1 is the
\* sum of the terms e^(-lambda t) (lambda t)^i / i! taken one by one, and the
\* call reaches it by the running-term recurrence, computing no factorial.
C24_RunningTermRecurrence ==
    lastCall.fn \in ErlangReliabilityFns =>
        /\ SumBehind(lastCall) = SurvivalSum(model.k, model.lambda, lastCall.t)
        /\ lastCall.factorialCalls = 0

---------------------------------------------------------------------------
(* The manager's three vectors.                                            *)

\* C25: after every addSensor, setHealth and query of the C++ manager the
\* vectors sensors, exponentialModels and erlangModels have one length, and the
\* models at index i carry the failureRate and kStages of the sensor at index i.
C25_VectorsStayAligned ==
    /\ Len(exponentialModels) = Len(sensors)
    /\ Len(erlangModels) = Len(sensors)
    /\ \A i \in DOMAIN sensors :
           /\ exponentialModels[i].lambda = sensors[i].failureRate
           /\ erlangModels[i].lambda = sensors[i].failureRate
           /\ erlangModels[i].k = sensors[i].kStages

\* two sensors of different device models were added and a health was set
C25_Witness ==
    /\ Len(sensors) = 2
    /\ sensors[1].kStages # sensors[2].kStages
    /\ fret.fn = "setHealth"

---------------------------------------------------------------------------
(* Maintenance schedule claims.                                            *)

ScheduleReturned == fret.fn = "generateMaintenanceSchedule"

Scheduled == {fret.val.tasks[j].taskSensorId : j \in DOMAIN fret.val.tasks}

\* C26: when at most 20 sensors have health <= 70, each of them - one with
\* health exactly 30 too - is in the schedule, and no sensor with health > 70
\* ever is.
C26_EveryInactiveSensorScheduled ==
    ScheduleReturned =>
        /\ Cardinality({i \in DOMAIN sensors : sensors[i].health <= 70}) <= 20 =>
               \A i \in DOMAIN sensors :
                   sensors[i].health <= 70 => sensors[i].id \in Scheduled
        /\ \A i \in DOMAIN sensors :
               sensors[i].health > 70 => sensors[i].id \notin Scheduled

\* the device a task is for
SensorOfTask(task) == CHOOSE s \in {sensors[i] : i \in DOMAIN sensors} :
                          s.id = task.taskSensorId

\* C27: the schedule has at most 20 tasks, no two for one sensor; its
\* priority-1 tasks are those of failed sensors and come first, in ascending
\* queuePosition; its priority-2 tasks are those of warning sensors, in
\* ascending health.
C27_ScheduleOrder ==
    ScheduleReturned =>
        LET tasks == fret.val.tasks
        IN  /\ Len(tasks) <= 20
            /\ \A i, j \in DOMAIN tasks :
                   i < j =>
                       /\ tasks[i].taskSensorId # tasks[j].taskSensorId
                       /\ tasks[i].taskPriority <= tasks[j].taskPriority
                       /\ (tasks[i].taskPriority = 1 /\ tasks[j].taskPriority = 1) =>
                              SensorOfTask(tasks[i]).queuePosition
                                  <= SensorOfTask(tasks[j]).queuePosition
                       /\ (tasks[i].taskPriority = 2 /\ tasks[j].taskPriority = 2) =>
                              SensorOfTask(tasks[i]).health
                                  <= SensorOfTask(tasks[j]).health
            /\ \A i \in DOMAIN tasks :
                   /\ tasks[i].taskPriority \in {1, 2}
                   /\ tasks[i].taskPriority = 1 <=>
                          SensorOfTask(tasks[i]).health < 30
                   /\ tasks[i].taskPriority = 2 <=>
                          (SensorOfTask(tasks[i]).health > 30
                              /\ SensorOfTask(tasks[i]).health <= 70)

\* more than 20 sensors qualified and the 20 tasks returned hold both priorities
C27_Witness ==
    /\ ScheduleReturned
    /\ Len(filterFailed(sensors)) + Len(filterWarning(sensors)) > 20
    /\ Len(fret.val.tasks) = 20
    /\ fret.val.tasks[1].taskPriority = 1
    /\ fret.val.tasks[20].taskPriority = 2
    /\ \E i \in 1..19 :
           SensorOfTask(fret.val.tasks[i]).id > SensorOfTask(fret.val.tasks[i + 1]).id

\* C28: with a non-empty crew list the task at index idx goes to crew number
\* idx mod |crews| and arrives at (idx div |crews|) * 45 + 15, so arrivals
\* never decrease along the schedule, two crews' task counts differ by at most
\* 1 and no crew has two tasks with one arrival time.
C28_CrewRotation ==
    ScheduleReturned =>
        LET tasks == fret.val.tasks
            crews == fret.val.crews
            TasksOf(c) == {j \in DOMAIN tasks : (j - 1) % Len(crews) = c}
        IN  /\ \A j \in DOMAIN tasks :
                   /\ tasks[j].assignedCrew = crews[((j - 1) % Len(crews)) + 1]
                   /\ tasks[j].estimatedArrival = ((j - 1) \div Len(crews)) * 45 + 15
            /\ \A i, j \in DOMAIN tasks :
                   i < j =>
                       /\ tasks[i].estimatedArrival <= tasks[j].estimatedArrival
                       /\ tasks[i].assignedCrew = tasks[j].assignedCrew =>
                              tasks[i].estimatedArrival # tasks[j].estimatedArrival
            /\ \A c, d \in 0..(Len(crews) - 1) :
                   Cardinality(TasksOf(c)) - Cardinality(TasksOf(d)) <= 1

\* three crews share 20 tasks: 7, 7 and 6
C28_Witness ==
    /\ ScheduleReturned
    /\ Len(fret.val.crews) = 3
    /\ Len(fret.val.tasks) = 20
    /\ fret.val.tasks[20].assignedCrew = "CREW-B"
    /\ fret.val.tasks[20].estimatedArrival = 285

\* C29: for a non-empty fleet the expected additional failures are never
\* negative and never more than the devices that have not failed yet:
\* failedCount + expectedAdditionalFailures <= totalCount.
C29_ExpectedFailuresFitTheFleet ==
    (CascadeReturned /\ sensors # <<>>) =>
        /\ fret.val.expectedAdditional >= 0
        /\ fret.val.currentFailures + fret.val.expectedAdditional <= Len(sensors)

---------------------------------------------------------------------------
(* Dashboard claims.                                                       *)

\* C30: once the mount effect has run, stats.total = sensors.length = active +
\* warning + failed; each sensor is green with a check iff health > 70, amber
\* with a warning sign iff 30 < health <= 70, red with a cross iff health <= 30,
\* and the three counts are the numbers of sensors so shown; tab switches and
\* sensor selections leave sensors, stats and crewStatus as they are; the
\* ALERTS figure is stats.failed throughout.
C30_DashboardConsistent ==
    /\ [](mounted =>
            /\ stats.total = Len(sensors)
            /\ stats.total = stats.active + stats.warning + stats.failed
            /\ \A i \in DOMAIN sensors :
                   LET s == sensors[i]
                       shown == <<getHealthColor(s.health), StatusGlyph(s)>>
                   IN  /\ shown = <<"#00ff00", "check">> <=> s.health > 70
                       /\ shown = <<"#ffaa00", "warning">> <=>
                              (s.health > 30 /\ s.health <= 70)
                       /\ shown = <<"#ff0000", "cross">> <=> s.health <= 30
                       /\ shown \in {<<"#00ff00", "check">>, <<"#ffaa00", "warning">>,
                                     <<"#ff0000", "cross">>}
            /\ stats.active = Cardinality({i \in DOMAIN sensors :
                                  getHealthColor(sensors[i].health) = "#00ff00"})
            /\ stats.warning = Cardinality({i \in DOMAIN sensors :
                                   getHealthColor(sensors[i].health) = "#ffaa00"})
            /\ stats.failed = Cardinality({i \in DOMAIN sensors :
                                  getHealthColor(sensors[i].health) = "#ff0000"}))
    /\ [](Alerts = stats.failed)
    /\ [][mounted => UNCHANGED <<sensors, stats, crewStatus>>]_vars

\* after the mount effect a sensor of health exactly 70 was selected on the
\* map and the sensors tab opened
C30_Witness ==
    /\ mounted
    /\ activeTab = "sensors"
    /\ selectedSensor # null
    /\ selectedSensor.health = 70
    /\ stats.failed > 0

====
